---- MODULE Spec2Model ----
(***************************************************************************)
(* A state-machine model of the OpenMOC core: the vectorized MOC solver    *)
(* (src/src/VectorizedSolver.cpp), the analytic surfaces                    *)
(* (src/src/Surface.cpp) and the cells (src/src/Cell.cpp).                  *)
(*                                                                         *)
(* Real numbers are exact rationals <<n, d>> in lowest terms with d > 0.   *)
(* The IEEE values the code can produce by dividing by zero are kept:      *)
(* <<1, 0>> is +infinity, <<-1, 0>> is -infinity and <<0, 0>> is NaN.      *)
(***************************************************************************)
EXTENDS Integers, Sequences, FiniteSets, TLC

----------------------------------------------------------------------------
(* Exact arithmetic *)

Abs(i) == IF i < 0 THEN -i ELSE i

Sign(i) == IF i < 0 THEN -1 ELSE IF i > 0 THEN 1 ELSE 0

RECURSIVE GCD(_, _)
GCD(a, b) == IF b = 0 THEN a ELSE GCD(b, a % b)

NaN == <<0, 0>>

PosInf == <<1, 0>>

NegInf == <<-1, 0>>

\* The rational n/d in lowest terms; d = 0 gives the IEEE value of n/0.
Q(n, d) ==
  IF d = 0 THEN <<Sign(n), 0>>
  ELSE LET g == GCD(Abs(n), Abs(d))
       IN  <<Sign(d) * (n \div g), Sign(d) * (d \div g)>>

I(n) == <<n, 1>>

IsFinite(a) == a[2] # 0

IsNaN(a) == a = NaN

RNeg(a) == <<-a[1], a[2]>>

RAdd(a, b) ==
  IF IsFinite(a) /\ IsFinite(b)
  THEN LET g == GCD(a[2], b[2])
       IN  Q(a[1] * (b[2] \div g) + b[1] * (a[2] \div g), (a[2] \div g) * b[2])
  ELSE IF IsNaN(a) \/ IsNaN(b) THEN NaN
  ELSE IF IsFinite(a) THEN b
  ELSE IF IsFinite(b) THEN a
  ELSE IF a = b THEN a ELSE NaN

RSub(a, b) == RAdd(a, RNeg(b))

RMul(a, b) ==
  IF IsFinite(a) /\ IsFinite(b)
  THEN LET g == GCD(Abs(a[1]), b[2])
           h == GCD(Abs(b[1]), a[2])
       IN  Q((a[1] \div g) * (b[1] \div h), (a[2] \div h) * (b[2] \div g))
  ELSE IF IsNaN(a) \/ IsNaN(b) \/ a[1] = 0 \/ b[1] = 0 THEN NaN
  ELSE <<Sign(a[1]) * Sign(b[1]), 0>>

\* a / b as IEEE divides: x/0 is an infinity, 0/0 is NaN.
RDiv(a, b) ==
  IF IsFinite(a) /\ IsFinite(b)
  THEN IF b[1] = 0 THEN Q(a[1], 0)
       ELSE RMul(a, <<Sign(b[1]) * b[2], Abs(b[1])>>)
  ELSE IF IsNaN(a) \/ IsNaN(b) THEN NaN
  ELSE IF IsFinite(a) THEN I(0)
  ELSE IF IsFinite(b) THEN <<a[1] * (IF b[1] < 0 THEN -1 ELSE 1), 0>>
  ELSE NaN

\* fabs
RAbs(a) == <<Abs(a[1]), a[2]>>

\* a < b as IEEE compares: false whenever an operand is NaN.
RLt(a, b) ==
  IF IsNaN(a) \/ IsNaN(b) THEN FALSE
  ELSE IF IsFinite(a) /\ IsFinite(b) THEN a[1] * b[2] < b[1] * a[2]
  ELSE IF IsFinite(a) THEN b = PosInf
  ELSE IF IsFinite(b) THEN a = NegInf
  ELSE a = NegInf /\ b = PosInf

RGt(a, b) == RLt(b, a)

REq(a, b) == ~IsNaN(a) /\ ~IsNaN(b) /\ a = b

----------------------------------------------------------------------------
(* Bounds of the model *)

MaxGroups == 2

MaxFSRs == 2

MaxTracks == 3

MaxIterations == 2

\* The tracks of a sweep by the team of threads.
MaxSweepTracks == 4

NumThreads == 2

\* The largest numerator or denominator a flux may have when an outer
\* iteration starts: keeps the exact arithmetic within the integers of TLC.
MaxMagnitude == 200

\* static int auto_id = 10000: the first automatically generated id
FirstAutoId == 10000

\* The vector lengths the solver can be configured with.
VectorLengths == {2, 4, 8, 16}

\* What freshly allocated, never written memory may hold.
Garbage == {I(0), I(3)}

----------------------------------------------------------------------------
(* State *)

VARIABLES
  \* VectorizedSolver (and the CPUSolver fields it uses)
  stage,              \* where the driver of the power iteration stands
  iteration,          \* outer iterations completed
  geom_groups,        \* the geometry's number of energy groups
  fissile,            \* the material has a fission cross-section
  vector_length,      \* _vector_length
  num_vector_lengths, \* _num_vector_lengths
  num_groups,         \* _num_groups
  num_FSRs,           \* _num_FSRs
  tot_num_tracks,     \* _tot_num_tracks
  bc,                 \* the boundary condition of the track ends (0 or 1)
  scalar_flux,        \* _scalar_flux[r][e]
  boundary_flux,      \* _boundary_flux[t][dir][p][e]
  boundary_leakage,   \* _boundary_leakage[t][dir][p][e]
  fission_source,     \* _fission_source[r][e]
  source,             \* _source[r][e]
  old_source,         \* _old_source[r][e]
  ratios,             \* _ratios[r][e]
  k_eff,              \* _k_eff
  leakage             \* _leakage

solverVars ==
  <<stage, iteration, geom_groups, fissile, vector_length, num_vector_lengths,
    num_groups, num_FSRs, tot_num_tracks, bc, scalar_flux, boundary_flux,
    boundary_leakage, fission_source, source, old_source, ratios, k_eff,
    leakage>>

VARIABLES
  \* Surface.cpp and Cell.cpp
  surf_auto_id,       \* auto_id of Surface.cpp
  surf_n,             \* Surface::_n
  cell_auto_id,       \* auto_id of Cell.cpp
  cell_n,             \* Cell::_n
  surfaces,           \* the Surface objects, the one of uid u at u + 1
  cells,              \* the Cell objects, the one of uid u at u + 1
  raised,             \* the last operation ended in log_printf(ERROR, ...)
  result              \* the operation last called and what it returned

geomVars ==
  <<surf_auto_id, surf_n, cell_auto_id, cell_n, surfaces, cells, raised,
    result>>

VARIABLES
  \* transportSweep and the threads of its parallel loops
  half,               \* i of the loop over the azimuthal halves (-1: no sweep)
  unassigned,         \* the iterations of the parallel loop not yet started
  swept,              \* the tracks whose iteration has ended
  threads,            \* per thread: where it is, its track, pass, segment,
                      \* fsr_flux and the row vdAdd has loaded
  holders,            \* per FSR: the threads that hold _FSR_locks[r]
  oob_mem,            \* how the memory past the end of fsr_flux behaves
  sweep_in            \* the flux arrays as they were when the sweep began

sweepVars ==
  <<half, unassigned, swept, threads, holders, oob_mem, sweep_in>>

vars == <<solverVars, geomVars, sweepVars>>

----------------------------------------------------------------------------
(* Inputs of the solver: materials, quadrature, tracks *)

\* 4 pi and its reciprocal, as an exact rational pair.
FOUR_PI == Q(25, 2)

ONE_OVER_FOUR_PI == Q(2, 25)

NumPolar == 1

\* _polar_weights[p]
PolarWeight(p) == I(p + 1)

\* The cross-sections of the one material, after alignData: the geometry's
\* groups carry the data, the padding groups carry sigma_t = 1 and zeros.
SigmaT(e) == I(1)

SigmaA(e) == IF e < geom_groups THEN Q(1, 10) ELSE I(0)

NuSigmaF(e) == IF fissile /\ e < geom_groups THEN Q(2, 10) ELSE I(0)

Chi(e) == IF e = 0 THEN I(1) ELSE I(0)

\* sigma_s[G * num_groups + g]: scattering within the group only.
SigmaS(G, g) == IF G = g /\ g < geom_groups THEN Q(9, 10) ELSE I(0)

\* _FSR_volumes[r]
Volume(r) == I(r + 1)

\* The tracks: every track has two segments.
NumSegments(t) == 2

\* segment s of track t: its region and its exponential 1 - exp(-tau/sin)
SegmentRegion(t, s) == (t + s) % num_FSRs

SegmentExp(t, s) == Q(1, 2)

\* The track that receives the flux leaving track t at its end (forward) or
\* its start (reverse): a track of the other azimuthal half.
HalfTracks == tot_num_tracks \div 2

Partner(t) ==
  IF t < HalfTracks THEN t + HalfTracks
  ELSE IF t < 2 * HalfTracks THEN t - HalfTracks
  ELSE t

TrackOut(t) == Partner(t)

TrackIn(t) == Partner(t)

ReflOut(t) == FALSE

ReflIn(t) == TRUE

----------------------------------------------------------------------------
(* Index sets and reductions *)

FSRs == 0 .. (num_FSRs - 1)

Tracks == 0 .. (tot_num_tracks - 1)

Polars == 0 .. (NumPolar - 1)

\* the energy groups the solver's arrays hold
Groups == 0 .. (num_groups - 1)

\* the groups the vectorized loops visit: v < _num_vector_lengths,
\* v*VEC_LENGTH <= e < (v+1)*VEC_LENGTH
VectorGroups == 0 .. (num_vector_lengths * vector_length - 1)

RECURSIVE SumOver(_, _)
SumOver(S, f) ==
  IF S = {} THEN I(0)
  ELSE LET i == CHOOSE j \in S : TRUE
       IN  RAdd(f[i], SumOver(S \ {i}, f))

\* cblas_dasum over an FSR x group array: the sum of the absolute values.
Asum2(a, R, E) ==
  SumOver(R, [r \in R |-> SumOver(E, [e \in E |-> RAbs(a[r][e])])])

\* cblas_sasum over a track x direction x polar x group array.
Asum4(a, T, D, P, E) ==
  SumOver(T, [t \in T |-> SumOver(D, [d \in D |->
    SumOver(P, [p \in P |-> SumOver(E, [e \in E |-> RAbs(a[t][d][p][e])])])])])

Uniform2(R, E, v) == [r \in R |-> [e \in E |-> v]]

Uniform4(T, D, P, E, v) ==
  [t \in T |-> [d \in D |-> [p \in P |-> [e \in E |-> v]]]]

----------------------------------------------------------------------------
(* VectorizedSolver *)

\* The padded number of groups for `groups` groups and vector length `vl`.
NumVectorLengths(groups, vl) == (groups + 1) \div vl

SetGeometry ==
  /\ stage = "constructed"
  /\ num_vector_lengths' = NumVectorLengths(geom_groups, vector_length)
  /\ num_groups' = NumVectorLengths(geom_groups, vector_length) * vector_length
  /\ stage' = "geometry"
  /\ UNCHANGED <<geomVars, sweepVars>>
  /\ UNCHANGED <<iteration, geom_groups, fissile, vector_length, num_FSRs,
                 tot_num_tracks, bc, scalar_flux, boundary_flux,
                 boundary_leakage, fission_source, source, old_source, ratios,
                 k_eff, leakage>>

\* _mm_malloc: the arrays hold whatever the memory held.
InitializeFluxArrays ==
  /\ stage = "geometry"
  /\ \E g \in Garbage :
       /\ boundary_flux' = Uniform4(Tracks, {0, 1}, Polars, Groups, g)
       /\ boundary_leakage' = Uniform4(Tracks, {0, 1}, Polars, Groups, g)
       /\ scalar_flux' = Uniform2(FSRs, Groups, g)
  /\ stage' = "fluxArrays"
  /\ UNCHANGED <<geomVars, sweepVars>>
  /\ UNCHANGED <<iteration, geom_groups, fissile, vector_length,
                 num_vector_lengths, num_groups,
                 num_FSRs, tot_num_tracks, bc, fission_source,
                 source, old_source, ratios, k_eff, leakage>>

InitializeSourceArrays ==
  /\ stage = "fluxArrays"
  /\ \E g \in Garbage :
       /\ fission_source' = Uniform2(FSRs, Groups, g)
       /\ source' = Uniform2(FSRs, Groups, g)
       /\ old_source' = Uniform2(FSRs, Groups, g)
       /\ ratios' = Uniform2(FSRs, Groups, g)
  /\ stage' = "sourceArrays"
  /\ UNCHANGED <<geomVars, sweepVars>>
  /\ UNCHANGED <<iteration, geom_groups, fissile, vector_length,
                 num_vector_lengths, num_groups,
                 num_FSRs, tot_num_tracks, bc, scalar_flux,
                 boundary_flux, boundary_leakage, k_eff, leakage>>

\* The start of the power iteration: phi <- 1, psi <- 1, Q_old <- 1, k <- 1.
InitializeIteration ==
  /\ stage = "sourceArrays"
  /\ scalar_flux' = Uniform2(FSRs, Groups, I(1))
  /\ boundary_flux' = Uniform4(Tracks, {0, 1}, Polars, Groups, I(1))
  /\ old_source' = Uniform2(FSRs, Groups, I(1))
  /\ k_eff' = I(1)
  /\ stage' = "normalize"
  /\ UNCHANGED <<geomVars, sweepVars>>
  /\ UNCHANGED <<iteration, geom_groups, fissile, vector_length,
                 num_vector_lengths, num_groups,
                 num_FSRs, tot_num_tracks, bc, boundary_leakage,
                 fission_source, source, ratios, leakage>>

\* The volume-weighted fission rates the loop of normalizeFluxes stores.
FissionRates(flux) ==
  [r \in FSRs |-> [e \in Groups |->
     IF e \in VectorGroups
     THEN RMul(RMul(NuSigmaF(e), flux[r][e]), Volume(r))
     ELSE fission_source[r][e]]]

\* tot_fission_source, the reduction of the stored rates with cblas_dasum
TotalFissionSource(flux) == Asum2(FissionRates(flux), FSRs, Groups)

NormFactor(flux) == RDiv(I(1), TotalFissionSource(flux))

\* cblas_dscal of an FSR x group array
Scale2(a, f) == [r \in DOMAIN a |-> [e \in DOMAIN a[r] |-> RMul(f, a[r][e])]]

\* cblas_dscal of the boundary flux
Scale4(a, f) ==
  [t \in DOMAIN a |-> [d \in DOMAIN a[t] |-> [p \in DOMAIN a[t][d] |->
     [e \in DOMAIN a[t][d][p] |-> RMul(f, a[t][d][p][e])]]]]

Small(a) == Abs(a[1]) <= MaxMagnitude /\ a[2] <= MaxMagnitude

SmallFluxes ==
  /\ \A r \in FSRs, e \in Groups : Small(scalar_flux[r][e])
  /\ \A t \in Tracks, d \in {0, 1}, p \in Polars, e \in Groups :
       Small(boundary_flux[t][d][p][e])
  /\ Small(k_eff)

NormalizeFluxes ==
  /\ stage = "normalize"
  /\ iteration < MaxIterations
  /\ SmallFluxes
  /\ fission_source' = FissionRates(scalar_flux)
  /\ scalar_flux' = Scale2(scalar_flux, NormFactor(scalar_flux))
  /\ boundary_flux' = Scale4(boundary_flux, NormFactor(scalar_flux))
  /\ stage' = "sources"
  /\ UNCHANGED <<geomVars, sweepVars>>
  /\ UNCHANGED <<iteration, geom_groups, fissile, vector_length,
                 num_vector_lengths, num_groups,
                 num_FSRs, tot_num_tracks, bc, boundary_leakage,
                 source, old_source, ratios, k_eff, leakage>>

\* fission_source of region r: cblas_dasum over fission_sources[0.._num_groups)
RegionFission(r) ==
  SumOver(Groups, [e \in Groups |-> RAbs(RMul(scalar_flux[r][e], NuSigmaF(e)))])

\* scatter_source of region r into group G
RegionScatter(r, G) ==
  SumOver(Groups, [g \in Groups |-> RAbs(RMul(SigmaS(G, g), scalar_flux[r][g]))])

\* _source(r,G)
NewSource(r, G) ==
  RMul(RAdd(RMul(RMul(RDiv(I(1), k_eff), RegionFission(r)), Chi(G)),
            RegionScatter(r, G)),
       ONE_OVER_FOUR_PI)

\* fabs(_source(r,G)) > 1E-10: every nonzero value of the model is larger
\* than 1E-10 in absolute value.
AboveSourceThreshold(q) == RGt(RAbs(q), I(0))

\* source_residuals(r,G): written only above the threshold, else what the
\* freshly allocated array held (g).
SourceResidual(r, G, g) ==
  IF AboveSourceThreshold(NewSource(r, G))
  THEN LET q == RDiv(RSub(NewSource(r, G), old_source[r][G]), NewSource(r, G))
       IN  RMul(q, q)
  ELSE g

\* The square of the value computeFSRSources returns,
\* sqrt(cblas_dasum(source_residuals) / _num_FSRs).
SourceResidualSquared(g) ==
  RDiv(Asum2([r \in FSRs |-> [G \in Groups |-> SourceResidual(r, G, g)]],
             FSRs, Groups),
       I(num_FSRs))

ComputeFSRSources ==
  /\ stage = "sources"
  /\ source' = [r \in FSRs |-> [G \in Groups |-> NewSource(r, G)]]
  /\ ratios' = [r \in FSRs |-> [G \in Groups |-> RDiv(NewSource(r, G), SigmaT(G))]]
  /\ old_source' = [r \in FSRs |-> [G \in Groups |-> NewSource(r, G)]]
  /\ stage' = "sweep"
  /\ UNCHANGED <<geomVars, sweepVars>>
  /\ UNCHANGED <<iteration, geom_groups, fissile, vector_length,
                 num_vector_lengths, num_groups,
                 num_FSRs, tot_num_tracks, bc, scalar_flux,
                 boundary_flux, boundary_leakage, fission_source, k_eff,
                 leakage>>

\* scalarFluxTally, the part on the thread's own data.  psi is the track's
\* angular flux psi[p][e], r the segment's region, ex its exponential.
\* psibar of polar angle p and group e:
Psibar(psi, r, ex, p, e) == RMul(RSub(psi[p][e], ratios[r][e]), ex)

\* fsr_flux after the loops: zeroed, then the weighted psibar of every angle
TallyBuffer(psi, r, ex) ==
  [e \in Groups |->
     IF e \in VectorGroups
     THEN SumOver(Polars, [p \in Polars |->
            RMul(Psibar(psi, r, ex, p, e), PolarWeight(p))])
     ELSE I(0)]

\* track_flux after the loops
TallyTrackFlux(psi, r, ex) ==
  [p \in Polars |-> [e \in Groups |->
     IF e \in VectorGroups
     THEN RSub(psi[p][e], Psibar(psi, r, ex, p, e))
     ELSE psi[p][e]]]

\* The elements transportSweep allocates for fsr_flux:
\* size = _num_FSRs * sizeof(FP_PRECISION)
BufferSize == num_FSRs

\* What the memory past the end of fsr_flux does with what is written to
\* it: it keeps it ({}), or it holds something else when it is read ({g}).
OutOfBounds == {{}} \cup {{g} : g \in Garbage}

\* fsr_flux as vdAdd reads it
ReadBuffer(buffer, oob) ==
  [e \in Groups |->
     IF e < BufferSize \/ oob = {} THEN buffer[e]
     ELSE CHOOSE g \in oob : TRUE]

\* vdAdd(_num_groups, &_scalar_flux(fsr_id,0), fsr_flux, ...)
VectorAdd(row, buffer) == [e \in Groups |-> RAdd(row[e], buffer[e])]

\* A variant of !bc that is bc itself.
NotBcAsGiven(b) == b

\* (!bc) of the C++ double bc
NotBc(b) == IF b = 0 THEN 1 ELSE 0

\* The direction slot of the receiving track: start / _polar_times_groups.
OutSlot(t, forward) ==
  IF forward THEN (IF ReflOut(t) THEN 1 ELSE 0)
  ELSE (IF ReflIn(t) THEN 1 ELSE 0)

OutTrack(t, forward) == IF forward THEN TrackOut(t) ELSE TrackIn(t)

\* transferBoundaryFlux: the boundary flux afterwards.  The track's own flux
\* is the slot d of track t (d = 0 forward, 1 reverse).
TransferFlux(bf, t, forward) ==
  LET d == IF forward THEN 0 ELSE 1
  IN  [bf EXCEPT ![OutTrack(t, forward)][OutSlot(t, forward)] =
        [p \in Polars |-> [e \in Groups |->
           IF e \in VectorGroups THEN RMul(bf[t][d][p][e], I(bc)) ELSE @[p][e]]]]

\* transferBoundaryFlux: the leakage afterwards.  The leakage entry is
\* computed from track_flux(p,e) as it reads after the store to the
\* receiving slot.
TransferLeakage(lk, bf, t, forward) ==
  LET d == IF forward THEN 0 ELSE 1
      after == TransferFlux(bf, t, forward)
  IN  [lk EXCEPT ![t][d] =
        [p \in Polars |-> [e \in Groups |->
           IF e \in VectorGroups
           THEN RMul(RMul(after[t][d][p][e], PolarWeight(p)), I(NotBc(bc)))
           ELSE @[p][e]]]]

\* One call of scalarFluxTally by a single thread, on st = [sf, bf, lk, oob].
TallySegment(st, t, d, s) ==
  LET r == SegmentRegion(t, s)
      psi == st.bf[t][d]
  IN  [st EXCEPT !.bf[t][d] = TallyTrackFlux(psi, r, SegmentExp(t, s)),
                 !.sf[r] = VectorAdd(@, ReadBuffer(
                             TallyBuffer(psi, r, SegmentExp(t, s)), st.oob))]

\* The segments of a pass, in the order the pass visits them.
RECURSIVE TallySegments(_, _, _, _)
TallySegments(st, t, d, order) ==
  IF order = <<>> THEN st
  ELSE TallySegments(TallySegment(st, t, d, Head(order)), t, d, Tail(order))

ForwardOrder(t) == [i \in 1 .. NumSegments(t) |-> i - 1]

ReverseOrder(t) == [i \in 1 .. NumSegments(t) |-> NumSegments(t) - i]

TransferBoundary(st, t, forward) ==
  [st EXCEPT !.bf = TransferFlux(st.bf, t, forward),
             !.lk = TransferLeakage(st.lk, st.bf, t, forward)]

\* The body of the loop over tracks, run by one thread.
SweepTrack(st, t) ==
  TransferBoundary(
    TallySegments(
      TransferBoundary(TallySegments(st, t, 0, ForwardOrder(t)), t, TRUE),
      t, 1, ReverseOrder(t)),
    t, FALSE)

\* The tracks of azimuthal half i: min <= track_id < max.
HalfMin(i) == i * (tot_num_tracks \div 2)

HalfMax(i) == (i + 1) * (tot_num_tracks \div 2)

RECURSIVE SweepTracks(_, _, _)
SweepTracks(st, t, max) ==
  IF t >= max THEN st ELSE SweepTracks(SweepTrack(st, t), t + 1, max)

\* transportSweep run by one thread, from flux arrays st.
SweepSequential(st) ==
  SweepTracks(
    SweepTracks([st EXCEPT !.sf = Uniform2(FSRs, Groups, I(0))],
                HalfMin(0), HalfMax(0)),
    HalfMin(1), HalfMax(1))

TransportSweep ==
  /\ stage = "sweep"
  /\ \E oob \in OutOfBounds :
       LET st == SweepSequential([sf |-> scalar_flux, bf |-> boundary_flux,
                                  lk |-> boundary_leakage, oob |-> oob])
       IN  /\ scalar_flux' = st.sf
           /\ boundary_flux' = st.bf
           /\ boundary_leakage' = st.lk
  /\ stage' = "addSource"
  /\ UNCHANGED <<geomVars, sweepVars>>
  /\ UNCHANGED <<iteration, geom_groups, fissile, vector_length,
                 num_vector_lengths, num_groups,
                 num_FSRs, tot_num_tracks, bc, fission_source,
                 source, old_source, ratios, k_eff, leakage>>

AddSourceToScalarFlux ==
  /\ stage = "addSource"
  /\ scalar_flux' =
       [r \in FSRs |-> [e \in Groups |->
          IF e \in VectorGroups
          THEN RAdd(RMul(FOUR_PI, ratios[r][e]),
                    RDiv(RMul(scalar_flux[r][e], Q(1, 2)),
                         RMul(SigmaT(e), Volume(r))))
          ELSE scalar_flux[r][e]]]
  /\ stage' = "keff"
  /\ UNCHANGED <<geomVars, sweepVars>>
  /\ UNCHANGED <<iteration, geom_groups, fissile, vector_length,
                 num_vector_lengths, num_groups,
                 num_FSRs, tot_num_tracks, bc, boundary_flux,
                 boundary_leakage, fission_source, source, old_source, ratios,
                 k_eff, leakage>>

\* tot_abs and tot_fission of computeKeff: cblas_dasum of the rate arrays.
\* An entry the loops do not visit keeps what the new[] array held (g).
TotalAbsorption(g) ==
  Asum2([r \in FSRs |-> [e \in Groups |->
           IF e \in VectorGroups
           THEN RMul(RMul(SigmaA(e), scalar_flux[r][e]), Volume(r)) ELSE g]],
        FSRs, Groups)

TotalFission(g) ==
  Asum2([r \in FSRs |-> [e \in Groups |->
           IF e \in VectorGroups
           THEN RMul(RMul(NuSigmaF(e), scalar_flux[r][e]), Volume(r)) ELSE g]],
        FSRs, Groups)

\* _leakage: half of cblas_sasum over the 2 * tracks * polar * groups entries
TotalLeakage ==
  RMul(Asum4(boundary_leakage, Tracks, {0, 1}, Polars, Groups), Q(1, 2))

ComputeKeff ==
  /\ stage = "keff"
  /\ \E g \in Garbage :
       k_eff' = RDiv(TotalFission(g), RAdd(TotalAbsorption(g), TotalLeakage))
  /\ leakage' = TotalLeakage
  /\ iteration' = iteration + 1
  /\ stage' = "normalize"
  /\ UNCHANGED <<geomVars, sweepVars>>
  /\ UNCHANGED <<geom_groups, fissile, vector_length, num_vector_lengths,
                 num_groups, num_FSRs, tot_num_tracks, bc, scalar_flux,
                 boundary_flux, boundary_leakage, fission_source, source,
                 old_source, ratios>>

\* No sweep is running.
SweepIdle ==
  /\ half = -1
  /\ unassigned = {}
  /\ swept = {}
  /\ threads = <<>>
  /\ holders = <<>>
  /\ oob_mem = {}
  /\ sweep_in = <<>>

\* No surface and no cell has been constructed.
GeometryIdle ==
  /\ surf_auto_id = FirstAutoId
  /\ surf_n = 0
  /\ cell_auto_id = FirstAutoId
  /\ cell_n = 0
  /\ surfaces = <<>>
  /\ cells = <<>>
  /\ raised = FALSE
  /\ result = [op |-> "none"]

Constructed ==
  /\ stage = "constructed"
  /\ iteration = 0
  /\ geom_groups \in 1 .. MaxGroups
  /\ vector_length \in VectorLengths
  /\ num_vector_lengths = 0
  /\ num_groups = geom_groups
  /\ num_FSRs \in 1 .. MaxFSRs
  /\ tot_num_tracks \in 1 .. MaxTracks
  /\ bc \in {0, 1}
  /\ scalar_flux = <<>>
  /\ boundary_flux = <<>>
  /\ boundary_leakage = <<>>
  /\ fission_source = <<>>
  /\ source = <<>>
  /\ old_source = <<>>
  /\ ratios = <<>>
  /\ k_eff = I(1)
  /\ leakage = I(0)
  /\ GeometryIdle
  /\ SweepIdle

\* The solver as constructed over a fissile material.
SolverInit == Constructed /\ fissile = TRUE

SolverNext ==
  \/ SetGeometry
  \/ InitializeFluxArrays
  \/ InitializeSourceArrays
  \/ InitializeIteration
  \/ NormalizeFluxes
  \/ ComputeFSRSources
  \/ TransportSweep
  \/ AddSourceToScalarFlux
  \/ ComputeKeff

\* The power iteration of the solver, run by one thread.
SpecSolver == SolverInit /\ [][SolverNext]_vars

----------------------------------------------------------------------------
(* The transport sweep run by the threads of the OpenMP team *)

Threads == 0 .. (NumThreads - 1)

\* A thread that is not inside an iteration of the loop over tracks.
IdleThread ==
  [pc |-> "idle", track |-> -1, forward |-> TRUE, seg |-> 0,
   fsr_flux |-> <<>>, row |-> <<>>]

\* The tracks of azimuthal half i
HalfTrackSet(i) == HalfMin(i) .. (HalfMax(i) - 1)

\* The segment a thread is at, and the FSR and the direction slot it is in.
CurrentSegment(T) ==
  (IF T.forward THEN ForwardOrder(T.track) ELSE ReverseOrder(T.track))[T.seg]

CurrentRegion(T) == SegmentRegion(T.track, CurrentSegment(T))

CurrentSlot(T) == IF T.forward THEN 0 ELSE 1

\* The pass of a track starts at its first segment, or at the transfer when
\* the track has no segment.
PassStart(t) == IF NumSegments(t) > 0 THEN "tally" ELSE "transfer"

\* transportSweep up to the loop over the halves: flattenFSRFluxes(0.0)
BeginSweep ==
  /\ stage = "sweep"
  /\ scalar_flux' = Uniform2(FSRs, Groups, I(0))
  /\ half' = 0
  /\ unassigned' = HalfTrackSet(0)
  /\ swept' = {}
  /\ threads' = [th \in Threads |-> IdleThread]
  /\ holders' = [r \in FSRs |-> {}]
  /\ oob_mem' \in OutOfBounds
  /\ sweep_in' = [sf |-> scalar_flux, bf |-> boundary_flux,
                  lk |-> boundary_leakage, oob |-> {}]
  /\ stage' = "sweeping"
  /\ UNCHANGED <<iteration, geom_groups, fissile, vector_length,
                 num_vector_lengths, num_groups,
                 num_FSRs, tot_num_tracks, bc, boundary_flux,
                 boundary_leakage, fission_source, source, old_source, ratios,
                 k_eff, leakage>>
  /\ UNCHANGED geomVars

\* What the steps of the threads leave alone.
SweepFrame ==
  UNCHANGED <<stage, iteration, geom_groups, fissile, vector_length,
              num_vector_lengths, num_groups, num_FSRs, tot_num_tracks, bc,
              fission_source, source, old_source, ratios, k_eff, leakage,
              half, oob_mem, sweep_in, geomVars>>

\* #pragma omp parallel for: a thread takes an iteration of the loop over
\* the tracks of the half.
StartTrack(th) ==
  /\ stage = "sweeping"
  /\ threads[th].pc = "idle"
  /\ \E t \in unassigned :
       /\ unassigned' = unassigned \ {t}
       /\ threads' = [threads EXCEPT ![th] =
            [pc |-> PassStart(t), track |-> t, forward |-> TRUE, seg |-> 1,
             fsr_flux |-> <<>>, row |-> <<>>]]
  /\ UNCHANGED <<scalar_flux, boundary_flux, boundary_leakage, swept, holders>>
  /\ SweepFrame

\* scalarFluxTally up to omp_set_lock: the buffer and the track's own flux
Tally(th) ==
  LET T == threads[th]
      r == CurrentRegion(T)
      d == CurrentSlot(T)
      ex == SegmentExp(T.track, CurrentSegment(T))
      psi == boundary_flux[T.track][d]
  IN  /\ stage = "sweeping"
      /\ T.pc = "tally"
      /\ boundary_flux' =
           [boundary_flux EXCEPT ![T.track][d] = TallyTrackFlux(psi, r, ex)]
      /\ threads' = [threads EXCEPT ![th].fsr_flux = TallyBuffer(psi, r, ex),
                                    ![th].pc = "lock"]
      /\ UNCHANGED <<scalar_flux, boundary_leakage, unassigned, swept, holders>>
      /\ SweepFrame

\* A variant of the lock that never makes a thread wait.
AlwaysFree(r) == TRUE

\* omp_set_lock returns when no thread holds the lock.
LockFree(r) == holders[r] = {}

\* omp_set_lock(&_FSR_locks[fsr_id])
Lock(th) ==
  LET T == threads[th]
      r == CurrentRegion(T)
  IN  /\ stage = "sweeping"
      /\ T.pc = "lock"
      /\ LockFree(r)
      /\ holders' = [holders EXCEPT ![r] = @ \cup {th}]
      /\ threads' = [threads EXCEPT ![th].pc = "read"]
      /\ UNCHANGED <<scalar_flux, boundary_flux, boundary_leakage, unassigned,
                     swept>>
      /\ SweepFrame

\* vdAdd: the loads of the row of the FSR
AddRead(th) ==
  LET T == threads[th]
  IN  /\ stage = "sweeping"
      /\ T.pc = "read"
      /\ threads' = [threads EXCEPT ![th].row = scalar_flux[CurrentRegion(T)],
                                    ![th].pc = "write"]
      /\ UNCHANGED <<scalar_flux, boundary_flux, boundary_leakage, unassigned,
                     swept, holders>>
      /\ SweepFrame

\* vdAdd: the stores of the sums
AddWrite(th) ==
  LET T == threads[th]
  IN  /\ stage = "sweeping"
      /\ T.pc = "write"
      /\ scalar_flux' = [scalar_flux EXCEPT ![CurrentRegion(T)] =
                           VectorAdd(T.row, ReadBuffer(T.fsr_flux, oob_mem))]
      /\ threads' = [threads EXCEPT ![th].pc = "unlock"]
      /\ UNCHANGED <<boundary_flux, boundary_leakage, unassigned, swept,
                     holders>>
      /\ SweepFrame

\* omp_unset_lock, and the step of the loop over the segments
Unlock(th) ==
  LET T == threads[th]
  IN  /\ stage = "sweeping"
      /\ T.pc = "unlock"
      /\ holders' = [holders EXCEPT ![CurrentRegion(T)] = @ \ {th}]
      /\ threads' = IF T.seg < NumSegments(T.track)
                    THEN [threads EXCEPT ![th].seg = T.seg + 1,
                                         ![th].pc = "tally"]
                    ELSE [threads EXCEPT ![th].pc = "transfer"]
      /\ UNCHANGED <<scalar_flux, boundary_flux, boundary_leakage, unassigned,
                     swept>>
      /\ SweepFrame

\* transferBoundaryFlux, then the reverse pass or the end of the iteration
Transfer(th) ==
  LET T == threads[th]
  IN  /\ stage = "sweeping"
      /\ T.pc = "transfer"
      /\ boundary_flux' = TransferFlux(boundary_flux, T.track, T.forward)
      /\ boundary_leakage' =
           TransferLeakage(boundary_leakage, boundary_flux, T.track, T.forward)
      /\ threads' = IF T.forward
                    THEN [threads EXCEPT ![th].forward = FALSE,
                                         ![th].seg = 1,
                                         ![th].pc = PassStart(T.track)]
                    ELSE [threads EXCEPT ![th] = IdleThread]
      /\ swept' = IF T.forward THEN swept ELSE swept \cup {T.track}
      /\ UNCHANGED <<scalar_flux, unassigned, holders>>
      /\ SweepFrame

\* A variant of the end of the parallel loop that does not wait for the
\* threads that are still inside an iteration.
LoopHandedOut == unassigned = {}

\* The end of the parallel loop: every iteration has been run to its end.
LoopDone == unassigned = {} /\ \A th \in Threads : threads[th].pc = "idle"

\* The step of the loop over the two halves
EndHalf ==
  /\ stage = "sweeping"
  /\ LoopDone
  /\ half' = half + 1
  /\ unassigned' = IF half = 0 THEN HalfTrackSet(1) ELSE {}
  /\ stage' = IF half = 0 THEN "sweeping" ELSE "addSource"
  /\ UNCHANGED <<iteration, geom_groups, fissile, vector_length,
                 num_vector_lengths, num_groups,
                 num_FSRs, tot_num_tracks, bc, scalar_flux,
                 boundary_flux, boundary_leakage, fission_source, source,
                 old_source, ratios, k_eff, leakage, swept, threads, holders,
                 oob_mem, sweep_in>>
  /\ UNCHANGED geomVars

\* The solver stands before a transport sweep of the power iteration.
SweepInit ==
  /\ stage = "sweep"
  /\ iteration = 0
  /\ geom_groups = 1
  /\ fissile = TRUE
  /\ vector_length = 2
  /\ num_vector_lengths = NumVectorLengths(geom_groups, vector_length)
  /\ num_groups = num_vector_lengths * vector_length
  /\ num_FSRs \in 1 .. MaxFSRs
  /\ tot_num_tracks \in 2 .. MaxSweepTracks
  /\ bc \in {0, 1}
  /\ scalar_flux = Uniform2(FSRs, Groups, I(1))
  /\ boundary_flux = Uniform4(Tracks, {0, 1}, Polars, Groups, I(1))
  /\ boundary_leakage = Uniform4(Tracks, {0, 1}, Polars, Groups, I(0))
  /\ fission_source = Uniform2(FSRs, Groups, I(1))
  /\ source = Uniform2(FSRs, Groups, I(1))
  /\ old_source = Uniform2(FSRs, Groups, I(1))
  /\ ratios = Uniform2(FSRs, Groups, Q(1, 4))
  /\ k_eff = I(1)
  /\ leakage = I(0)
  /\ GeometryIdle
  /\ SweepIdle

SweepNext ==
  \/ BeginSweep
  \/ \E th \in Threads : StartTrack(th)
  \/ \E th \in Threads : Tally(th)
  \/ \E th \in Threads : Lock(th)
  \/ \E th \in Threads : AddRead(th)
  \/ \E th \in Threads : AddWrite(th)
  \/ \E th \in Threads : Unlock(th)
  \/ \E th \in Threads : Transfer(th)
  \/ EndHalf

\* One transport sweep by the team of threads.
SpecSweep == SweepInit /\ [][SweepNext]_vars

----------------------------------------------------------------------------
(* Surfaces and cells *)

\* The user ids a construction is called with (0: none given).
UserIds == {0, 1, 9999, 10000, 10001}

\* The constructions of one run.
MaxConstructions == 3

\* The surfaces of one run of the surface queries.
MaxSurfaces == 1

\* The cells of one run of the cell operations.
MaxCells == 1

\* The largest square root the roots of a discriminant are looked up to.
MaxRoot == 100

Point(x, y) == <<x, y>>

\* The start points of the rays.
StartPoints ==
  {Point(I(0), I(0)), Point(I(7), I(1)), Point(I(5), I(-7)),
   Point(I(-3), I(4)), Point(I(-8), I(-6)), Point(I(1), I(-1))}

\* The angles of the rays, each as a vector (cos, sin) scaled to integers:
\* 0, atan(3/4), pi/4, pi/2, pi - atan(3/4), pi, pi + atan(3/4) and
\* 2 pi - atan(3/4).
Angles ==
  {<<1, 0>>, <<4, 3>>, <<1, 1>>, <<0, 1>>, <<-4, 3>>, <<-1, 0>>, <<-4, -3>>,
   <<4, -3>>}

\* The points cellContainsPoint is asked about.
QueryPoints ==
  {Point(Q(1, 2), Q(1, 2)), Point(Q(-1, 10), Q(1, 2)),
   Point(Q(4, 5), Q(4, 5)), Point(I(0), Q(1, 2)), Point(Q(3, 5), Q(4, 5)),
   Point(Q(1, 2), Q(-1, 2))}

\* The halfspaces addSurface is called with.
Halfspaces == {-1, 1, 2}

\* Plane::Plane: A x + B y + C = 0
Plane(A, B, C) ==
  [type |-> "PLANE", A |-> A, B |-> B, C |-> C, D |-> I(0), E |-> I(0),
   radius |-> I(0), center |-> Point(I(0), I(0)), coord |-> I(0)]

\* XPlane::XPlane: Plane(1, 0, -x) and _x
XPlane(x) ==
  [Plane(I(1), I(0), RNeg(x)) EXCEPT !.type = "XPLANE", !.coord = x]

\* YPlane::YPlane: Plane(0, 1, -y) and _y
YPlane(y) ==
  [Plane(I(0), I(1), RNeg(y)) EXCEPT !.type = "YPLANE", !.coord = y]

\* ZPlane::ZPlane: Plane(0, 0, -z) and _z
ZPlane(z) ==
  [Plane(I(0), I(0), RNeg(z)) EXCEPT !.type = "ZPLANE", !.coord = z]

\* The square root of a rational that is not the square of a rational is
\* kept as the rational with a third component 2.
Root(v) == <<v[1], v[2], 2>>

\* radius * radius
Squared(radius) ==
  IF Len(radius) = 3 THEN <<radius[1], radius[2]>> ELSE RMul(radius, radius)

\* Circle::Circle: x^2 + y^2 - 2 x0 x - 2 y0 y + x0^2 + y0^2 - R^2 = 0
Circle(x, y, radius) ==
  [type |-> "CIRCLE", A |-> I(1), B |-> I(1), C |-> RMul(I(-2), x),
   D |-> RMul(I(-2), y),
   E |-> RSub(RAdd(RMul(x, x), RMul(y, y)), Squared(radius)),
   radius |-> radius, center |-> Point(x, y), coord |-> I(0)]

\* The surfaces the rays are sent at.
RayShapes ==
  {XPlane(I(3)), YPlane(I(4)), ZPlane(I(1)), Plane(I(1), I(1), I(-7)),
   Plane(I(3), I(4), I(-25)), Circle(I(0), I(0), I(5)),
   Circle(I(1), I(0), I(2))}

\* The surfaces the cells are bounded by.
CellShapes == {XPlane(I(0)), YPlane(I(0)), Circle(I(0), I(0), I(1))}

\* Surface::Surface(id): whether the id is accepted, the _id and the
\* auto_id afterwards. The test id >= surf_id() calls surf_id(), which
\* returns auto_id and increments it.
SurfaceId(id, auto) ==
  IF id = 0 THEN [ok |-> TRUE, id |-> auto, auto |-> auto + 1]
  ELSE IF id >= auto THEN [ok |-> FALSE, id |-> id, auto |-> auto + 1]
  ELSE [ok |-> TRUE, id |-> id, auto |-> auto + 1]

\* Cell::Cell(universe, id): the same for a cell; the test is id >= 10000.
CellId(id, auto) ==
  IF id = 0 THEN [ok |-> TRUE, id |-> auto, auto |-> auto + 1]
  ELSE IF id >= FirstAutoId THEN [ok |-> FALSE, id |-> id, auto |-> auto]
  ELSE [ok |-> TRUE, id |-> id, auto |-> auto]

\* The constructor of a surface of the given shape. log_printf(ERROR, ...)
\* raises: no object comes to be, the counter of surf_id() stays advanced.
NewSurface(shape, id) ==
  LET a == SurfaceId(id, surf_auto_id)
      obj == [uid |-> surf_n, id |-> a.id, requested |-> id,
              boundary_type |-> "BOUNDARY_NONE"] @@ shape
  IN  /\ surf_auto_id' = a.auto
      /\ surfaces' = IF a.ok THEN Append(surfaces, obj) ELSE surfaces
      /\ surf_n' = IF a.ok THEN surf_n + 1 ELSE surf_n
      /\ raised' = ~a.ok
      /\ result' = [op |-> "Surface", requested |-> id, id |-> a.id]
      /\ UNCHANGED <<cell_auto_id, cell_n, cells>>

\* CellBasic::CellBasic(universe, material, rings, sectors, id)
NewCell(universe, material, rings, sectors, id) ==
  LET a == CellId(id, cell_auto_id)
      obj == [uid |-> cell_n, id |-> a.id, requested |-> id,
              universe |-> universe, type |-> "MATERIAL",
              material |-> material, num_rings |-> rings,
              num_sectors |-> IF sectors = 1 THEN 0 ELSE sectors,
              surfaces |-> <<>>, rings |-> <<>>, sectors |-> <<>>,
              subcells |-> <<>>]
      ok == a.ok /\ rings >= 0 /\ sectors >= 0
  IN  /\ cell_auto_id' = a.auto
      /\ cells' = IF ok THEN Append(cells, obj) ELSE cells
      /\ cell_n' = IF a.ok THEN cell_n + 1 ELSE cell_n
      /\ raised' = ~ok
      /\ result' = [op |-> "Cell", requested |-> id, id |-> a.id]
      /\ UNCHANGED <<surf_auto_id, surf_n, surfaces>>

\* Surface::evaluate: the implicit form of the surface at the point
Evaluate(s, p) ==
  IF s.type = "CIRCLE"
  THEN RAdd(RAdd(RAdd(RMul(s.A, RMul(p[1], p[1])),
                      RMul(s.B, RMul(p[2], p[2]))),
                 RAdd(RMul(s.C, p[1]), RMul(s.D, p[2]))), s.E)
  ELSE RAdd(RAdd(RMul(s.A, p[1]), RMul(s.B, p[2])), s.C)

\* fabs(angle - M_PI / 2) < 1.0e-10
Vertical(angle) == angle[1] = 0 /\ angle[2] > 0

\* sin(angle) / cos(angle)
Slope(angle) == RDiv(I(angle[2]), I(angle[1]))

\* angle < M_PI
BelowPi(angle) == angle[2] > 0 \/ (angle[2] = 0 /\ angle[1] > 0)

\* angle > M_PI
AbovePi(angle) == angle[2] < 0

\* fabs(v) < 1e-11 for a value of the model: a non-zero rational of the
\* model is at least 1 / 2^31 away from zero.
NearZero(v) == IsFinite(v) /\ v[1] = 0

\* sqrt of a rational that is the square of a rational
ISqrt(n) == CHOOSE k \in 0 .. MaxRoot : k * k = n

HasRoot(v) ==
  /\ IsFinite(v)
  /\ \E k \in 0 .. MaxRoot : k * k = v[1]
  /\ \E k \in 0 .. MaxRoot : k * k = v[2]

RSqrt(v) == Q(ISqrt(v[1]), ISqrt(v[2]))

\* A variant of the test that also counts a point level with the start:
\* ycurr >= y0 and ycurr <= y0.
ReportLevel(out, xcurr, ycurr, y0, angle) ==
  [num |-> IF \/ BelowPi(angle) /\ ~RLt(ycurr, y0)
              \/ AbovePi(angle) /\ ~RGt(ycurr, y0)
           THEN out.num + 1 ELSE out.num,
   points |-> [out.points EXCEPT ![out.num] = Point(xcurr, ycurr)]]

\* points[num].setCoords(xcurr, ycurr) and the test that counts the point:
\* if (angle < M_PI && ycurr > y0) num++;
\* else if (angle > M_PI && ycurr < y0) num++;
Report(out, xcurr, ycurr, y0, angle) ==
  [num |-> IF \/ BelowPi(angle) /\ RGt(ycurr, y0)
              \/ AbovePi(angle) /\ RLt(ycurr, y0)
           THEN out.num + 1 ELSE out.num,
   points |-> [out.points EXCEPT ![out.num] = Point(xcurr, ycurr)]]

\* Plane::intersection
PlaneIntersection(s, point, angle, points) ==
  LET x0 == point[1]
      y0 == point[2]
      out == [num |-> 0, points |-> points]
  IN  IF Vertical(angle)
      THEN IF s.B = I(0) THEN out
           ELSE Report(out, x0,
                       RDiv(RSub(RMul(RNeg(s.A), x0), s.C), s.B), y0, angle)
      ELSE LET m == Slope(angle)
               xcurr == RDiv(RNeg(RAdd(RMul(s.B, RSub(y0, RMul(m, x0))),
                                       s.C)),
                             RAdd(s.A, RMul(s.B, m)))
               ycurr == RAdd(y0, RMul(m, RSub(xcurr, x0)))
           IN  IF NearZero(RSub(RDiv(RNeg(s.A), s.B), m)) /\ s.B # I(0)
               THEN out
               ELSE Report(out, xcurr, ycurr, y0, angle)

\* The discriminant Circle::intersection computes
Discriminant(s, point, angle) ==
  LET x0 == point[1]
      y0 == point[2]
  IN  IF Vertical(angle)
      THEN LET a == RMul(s.B, s.B)
               b == s.D
               c == RAdd(RAdd(RMul(s.A, RMul(x0, x0)), RMul(s.C, x0)), s.E)
           IN  RSub(RMul(b, b), RMul(I(4), RMul(a, c)))
      ELSE LET m == Slope(angle)
               q == RSub(y0, RMul(m, x0))
               a == RAdd(s.A, RMul(RMul(s.B, s.B), RMul(m, m)))
               b == RAdd(RAdd(RMul(I(2), RMul(s.B, RMul(m, q))), s.C),
                         RMul(s.D, m))
               c == RAdd(RAdd(RMul(s.B, RMul(q, q)), RMul(s.D, q)), s.E)
           IN  RSub(RMul(b, b), RMul(I(4), RMul(a, c)))

\* Circle::intersection. In the tangent case of a ray that is not vertical
\* the y coordinate is computed from points[0].getX(), what the output array
\* held when the function was called.
CircleIntersection(s, point, angle, points) ==
  LET x0 == point[1]
      y0 == point[2]
      out == [num |-> 0, points |-> points]
      discr == Discriminant(s, point, angle)
  IN  IF Vertical(angle)
      THEN LET a == RMul(s.B, s.B)
               b == s.D
               y1 == RDiv(RAdd(RNeg(b), RSqrt(discr)), RMul(I(2), a))
               y2 == RDiv(RSub(RNeg(b), RSqrt(discr)), RMul(I(2), a))
           IN  IF RLt(discr, I(0)) THEN out
               ELSE IF discr = I(0)
               THEN Report(out, x0, RDiv(RNeg(b), RMul(I(2), a)), y0, angle)
               ELSE Report(Report(out, x0, y1, y0, angle), x0, y2, y0, angle)
      ELSE LET m == Slope(angle)
               q == RSub(y0, RMul(m, x0))
               a == RAdd(s.A, RMul(RMul(s.B, s.B), RMul(m, m)))
               b == RAdd(RAdd(RMul(I(2), RMul(s.B, RMul(m, q))), s.C),
                         RMul(s.D, m))
               x1 == RDiv(RAdd(RNeg(b), RSqrt(discr)), RMul(I(2), a))
               x2 == RDiv(RSub(RNeg(b), RSqrt(discr)), RMul(I(2), a))
               Y(x) == RAdd(y0, RMul(m, RSub(x, x0)))
           IN  IF RLt(discr, I(0)) THEN out
               ELSE IF discr = I(0)
               THEN Report(out, RDiv(RNeg(b), RMul(I(2), a)),
                           Y(points[0][1]), y0, angle)
               ELSE Report(Report(out, x1, Y(x1), y0, angle),
                           x2, Y(x2), y0, angle)

\* The output array as the caller hands it over: two Points never written.
StalePoints == {[i \in 0 .. 1 |-> Point(g, g)] : g \in Garbage}

\* The discriminant is negative or has a rational root.
Solvable(s, point, angle) ==
  \/ s.type # "CIRCLE"
  \/ RLt(Discriminant(s, point, angle), I(0))
  \/ HasRoot(Discriminant(s, point, angle))

\* surface->intersection(point, angle, points), dispatched on the type
Intersection(u, point, angle, points) ==
  LET s == surfaces[u + 1]
      out == IF s.type = "CIRCLE"
             THEN CircleIntersection(s, point, angle, points)
             ELSE PlaneIntersection(s, point, angle, points)
  IN  /\ Solvable(s, point, angle)
      /\ result' = [op |-> "intersection", surface |-> u, point |-> point,
                    angle |-> angle, num |-> out.num, points |-> out.points,
                    was |-> points]
      /\ raised' = FALSE
      /\ UNCHANGED <<surf_auto_id, surf_n, cell_auto_id, cell_n, surfaces,
                     cells>>

\* v < -ON_SURFACE_THRESH for a value of the model: a non-zero rational of
\* the model is more than 1e-12 away from zero.
BelowMinusThresh(v) == RLt(v, I(0))

\* A variant of addSurface without the check of the halfspace.
AddSurfaceUnchecked(c, halfspace, u) ==
  LET entry == [surface |-> u, halfspace |-> halfspace]
      key == surfaces[u + 1].id
  IN  /\ raised' = FALSE
      /\ cells' = [cells EXCEPT ![c + 1].surfaces = (key :> entry) @@ @]
      /\ result' = [op |-> "addSurface", cell |-> c, surface |-> u,
                    halfspace |-> halfspace, was |-> cells[c + 1].surfaces]
      /\ UNCHANGED <<surf_auto_id, surf_n, cell_auto_id, cell_n, surfaces>>

\* Cell::addSurface: the halfspace is checked, then the entry is stored under
\* the id of the surface, replacing the entry that id had. The result keeps
\* the map the cell had when the call began.
AddSurface(c, halfspace, u) ==
  LET entry == [surface |-> u, halfspace |-> halfspace]
      key == surfaces[u + 1].id
  IN  /\ raised' = (halfspace # -1 /\ halfspace # 1)
      /\ cells' = IF raised' THEN cells
                  ELSE [cells EXCEPT ![c + 1].surfaces = (key :> entry) @@ @]
      /\ result' = [op |-> "addSurface", cell |-> c, surface |-> u,
                    halfspace |-> halfspace, was |-> cells[c + 1].surfaces]
      /\ UNCHANGED <<surf_auto_id, surf_n, cell_auto_id, cell_n, surfaces>>

\* A variant of the test that forgets the halfspace of the entry.
WrongSideOfPositive(entry, point) ==
  BelowMinusThresh(Evaluate(surfaces[entry.surface + 1], point))

\* The test of cellContainsPoint on one entry of the map:
\* evaluate(point) * halfspace < -ON_SURFACE_THRESH
WrongSide(entry, point) ==
  BelowMinusThresh(RMul(Evaluate(surfaces[entry.surface + 1], point),
                        I(entry.halfspace)))

\* Cell::cellContainsPoint: false at the first entry on the wrong side
CellContainsPoint(cell, point) ==
  ~ \E key \in DOMAIN cell.surfaces : WrongSide(cell.surfaces[key], point)

ContainsPoint(c, point) ==
  /\ result' = [op |-> "cellContainsPoint", cell |-> c, point |-> point,
                value |-> CellContainsPoint(cells[c + 1], point)]
  /\ raised' = FALSE
  /\ UNCHANGED <<surf_auto_id, surf_n, cell_auto_id, cell_n, surfaces, cells>>

\* The solver is not part of the runs of the geometry.
SolverIdle ==
  /\ stage = "idle"
  /\ iteration = 0
  /\ geom_groups = 1
  /\ fissile = TRUE
  /\ vector_length = 2
  /\ num_vector_lengths = 0
  /\ num_groups = 1
  /\ num_FSRs = 1
  /\ tot_num_tracks = 2
  /\ bc = 1
  /\ scalar_flux = <<>>
  /\ boundary_flux = <<>>
  /\ boundary_leakage = <<>>
  /\ fission_source = <<>>
  /\ source = <<>>
  /\ old_source = <<>>
  /\ ratios = <<>>
  /\ k_eff = I(1)
  /\ leakage = I(0)

GeometryInit == SolverIdle /\ GeometryIdle /\ SweepIdle

\* Surfaces and cells are constructed with any user ids.
\* The constructors called so far: surf_id() has counted the surfaces'.
Constructions == (surf_auto_id - FirstAutoId) + cell_n

ConstructSurface ==
  /\ Constructions < MaxConstructions
  /\ \E id \in UserIds : NewSurface(Circle(I(0), I(0), I(1)), id)
  /\ UNCHANGED <<solverVars, sweepVars>>

ConstructCell ==
  /\ Constructions < MaxConstructions
  /\ \E id \in UserIds : NewCell(0, 1, 0, 0, id)
  /\ UNCHANGED <<solverVars, sweepVars>>

IdsNext == ConstructSurface \/ ConstructCell

SpecIds == GeometryInit /\ [][IdsNext]_vars

\* Rays are sent at a surface.
ConstructRaySurface ==
  /\ surf_n < MaxSurfaces
  /\ \E shape \in RayShapes : NewSurface(shape, 0)
  /\ UNCHANGED <<solverVars, sweepVars>>

SendRay ==
  /\ \E u \in 0 .. (surf_n - 1), point \in StartPoints, angle \in Angles,
        points \in StalePoints : Intersection(u, point, angle, points)
  /\ UNCHANGED <<solverVars, sweepVars>>

SurfaceNext == ConstructRaySurface \/ SendRay

SpecSurface == GeometryInit /\ [][SurfaceNext]_vars

\* A cell is bounded by surfaces and asked about points.
ConstructCellSurface ==
  /\ \E shape \in CellShapes :
       /\ \A i \in DOMAIN surfaces : surfaces[i].type # shape.type
       /\ NewSurface(shape, 0)
  /\ UNCHANGED <<solverVars, sweepVars>>

ConstructMaterialCell ==
  /\ cell_n < MaxCells
  /\ NewCell(0, 1, 0, 0, 0)
  /\ UNCHANGED <<solverVars, sweepVars>>

BoundCell ==
  /\ \E c \in 0 .. (cell_n - 1), u \in 0 .. (surf_n - 1),
        halfspace \in Halfspaces : AddSurface(c, halfspace, u)
  /\ UNCHANGED <<solverVars, sweepVars>>

AskCell ==
  /\ \E c \in 0 .. (cell_n - 1), point \in QueryPoints : ContainsPoint(c, point)
  /\ UNCHANGED <<solverVars, sweepVars>>

CellNext ==
  \/ ConstructCellSurface
  \/ ConstructMaterialCell
  \/ BoundCell
  \/ AskCell

SpecCell == GeometryInit /\ [][CellNext]_vars

----------------------------------------------------------------------------
(* Subdivision of material cells into sectors and rings *)

\* The surfaces of one run of the subdivision.
MaxPinSurfaces == 2

\* The calls of clone() by the user in one run of the subdivision.
MaxClones == 1

\* The ring and sector counts the constructor and the setters are called with.
RingCounts == {-1, 0, 1, 2, 4}

SectorCounts == {-1, 0, 1, 2, 4}

\* The surfaces the subdivided cells are bounded by: two circles about the
\* origin, a circle about (1, 0) and a plane.
PinShapes ==
  {Circle(I(0), I(0), I(1)), Circle(I(0), I(0), I(2)),
   Circle(I(1), I(0), I(3)), XPlane(I(0))}

\* log_printf(level, ...): at the level ERROR the call does not return to its
\* caller; at the other levels the message is printed and the caller goes on.
Raises(level) == level = "ERROR"

\* The objects and counters of Surface.cpp and Cell.cpp. Inside an operation
\* an object is named by its place in its sequence, from 0.
Heap ==
  [cells |-> cells, surfaces |-> surfaces, cell_auto_id |-> cell_auto_id,
   cell_n |-> cell_n, surf_auto_id |-> surf_auto_id, surf_n |-> surf_n]

Install(h) ==
  /\ cells' = h.cells
  /\ surfaces' = h.surfaces
  /\ cell_auto_id' = h.cell_auto_id
  /\ cell_n' = h.cell_n
  /\ surf_auto_id' = h.surf_auto_id
  /\ surf_n' = h.surf_n

\* new Plane(...) or new Circle(...) for each of the shapes, one after the
\* other and without an id: Surface::Surface(0) gives each the next auto id
AllocSurfaces(h, shapes) ==
  [h EXCEPT
     !.surfaces = @ \o
       [i \in DOMAIN shapes |->
          [uid |-> h.surf_n + i - 1,
           id |-> SurfaceId(0, h.surf_auto_id + i - 1).id, requested |-> 0,
           boundary_type |-> "BOUNDARY_NONE"] @@ shapes[i]],
     !.surf_n = @ + Len(shapes),
     !.surf_auto_id = @ + Len(shapes)]

\* Cell::addSurface with a halfspace of -1 or +1, on the map of a cell
PutSurface(h, map, halfspace, u) ==
  (h.surfaces[u + 1].id :> [surface |-> u, halfspace |-> halfspace]) @@ map

Min(S) == CHOOSE m \in S : \A x \in S : m <= x

Max(S) == CHOOSE m \in S : \A x \in S : x <= m

\* The loop of clone() over the map of the original, in the order of its
\* keys: each entry is added to the map of the new cell
RECURSIVE PutAll(_, _, _, _)
PutAll(h, map, original, keys) ==
  IF keys = {} THEN map
  ELSE PutAll(h, PutSurface(h, map, original[Min(keys)].halfspace,
                            original[Min(keys)].surface),
              original, keys \ {Min(keys)})

\* addSurface for each of the pairs, in their order
RECURSIVE PutEach(_, _, _)
PutEach(h, map, pairs) ==
  IF pairs = <<>> THEN map
  ELSE PutEach(h, PutSurface(h, map, Head(pairs).halfspace,
                             Head(pairs).surface), Tail(pairs))

\* A variant of clone() that leaves out the loop over the surfaces.
CloneWithoutSurfaces(h, k, c) ==
  LET orig == h.cells[c + 1]
  IN  [uid |-> h.cell_n + k, id |-> CellId(0, h.cell_auto_id + k).id,
       requested |-> 0, universe |-> orig.universe, type |-> "MATERIAL",
       material |-> orig.material, num_rings |-> orig.num_rings,
       num_sectors |-> IF orig.num_sectors = 1 THEN 0 ELSE orig.num_sectors,
       surfaces |-> <<>>, rings |-> <<>>, sectors |-> <<>>,
       subcells |-> <<>>]

\* CellBasic::clone: the cell that the call of clone() on cell c returns when
\* k cells have been constructed since the heap was h. The constructor is
\* called without an id and with the counts of c, which the setters accept.
CloneObject(h, k, c) ==
  LET orig == h.cells[c + 1]
  IN  [uid |-> h.cell_n + k, id |-> CellId(0, h.cell_auto_id + k).id,
       requested |-> 0, universe |-> orig.universe, type |-> "MATERIAL",
       material |-> orig.material, num_rings |-> orig.num_rings,
       num_sectors |-> IF orig.num_sectors = 1 THEN 0 ELSE orig.num_sectors,
       surfaces |-> PutAll(h, <<>>, orig.surfaces, DOMAIN orig.surfaces),
       rings |-> <<>>, sectors |-> <<>>, subcells |-> <<>>]

\* setNumSectors(0), setNumRings(0) and the calls of addSurface on a clone
Subcell(h, clone, pairs) ==
  [clone EXCEPT !.num_sectors = 0, !.num_rings = 0,
                !.surfaces = PutEach(h, @, pairs)]

\* The heap with the new cells, which were constructed one after the other
AllocCells(h, objects) ==
  [h EXCEPT !.cells = @ \o objects,
            !.cell_n = @ + Len(objects),
            !.cell_auto_id = @ + Len(objects)]

\* The places of m new cells in the heap
NewCells(h, m) == [j \in 1 .. m |-> Len(h.cells) + j - 1]

\* cos and sin of i * 2 pi / n, for the n that divide 4: the values of the
\* library are within 1e-15 of these.
Quarter(i, n) == (i * (4 \div n)) % 4

Cos(i, n) ==
  IF Quarter(i, n) = 0 THEN I(1) ELSE IF Quarter(i, n) = 2 THEN I(-1) ELSE I(0)

Sin(i, n) ==
  IF Quarter(i, n) = 1 THEN I(1) ELSE IF Quarter(i, n) = 3 THEN I(-1) ELSE I(0)

\* The first loop of sectorize: plane i is Plane(cos, sin, 0)
SectorPlanes(n) == [j \in 1 .. n |-> Plane(Cos(j - 1, n), Sin(j - 1, n), I(0))]

\* A variant of the index of the second plane of a sector without the wrap.
NextPlaneItself(i, n) == i

\* The index of the second plane of sector i: i + 1, or 0 for the last
NextPlane(i, n) == IF i + 1 < n THEN i + 1 ELSE 0

\* A variant of the planes of a sector that gives every sector its first
\* plane only, as is done for two sectors.
SectorBoundsOneSided(i, n, first) ==
  <<[halfspace |-> 1, surface |-> first + i]>>

\* The planes sector i is given, the planes being the surfaces from first on
SectorBounds(i, n, first) ==
  IF n # 2
  THEN <<[halfspace |-> 1, surface |-> first + i],
         [halfspace |-> -1, surface |-> first + NextPlane(i, n)]>>
  ELSE <<[halfspace |-> 1, surface |-> first + i]>>

\* CellBasic::sectorize: the planes are made, then sector i is a clone of the
\* cell with no rings and no sectors and with its planes; the sectors are
\* appended to _sectors, and _subcells becomes _sectors.
Sectorize(h, c) ==
  LET n == h.cells[c + 1].num_sectors
      first == Len(h.surfaces)
      h1 == AllocSurfaces(h, SectorPlanes(n))
      sectors == [j \in 1 .. n |->
                    Subcell(h1, CloneObject(h1, j - 1, c),
                            SectorBounds(j - 1, n, first))]
      h2 == AllocCells(h1, sectors)
  IN  IF n = 0 THEN h
      ELSE [h2 EXCEPT
              !.cells[c + 1].sectors = @ \o NewCells(h1, n),
              !.cells[c + 1].subcells =
                 h.cells[c + 1].sectors \o NewCells(h1, n)]

\* The keys of the CIRCLE surfaces of a cell
CircleKeys(h, cell) ==
  {k \in DOMAIN cell.surfaces :
     h.surfaces[cell.surfaces[k].surface + 1].type = "CIRCLE"}

\* circle1 (halfspace -1) and circle2 (halfspace +1) after the loop over the
\* map: the last circle of that halfspace, <<>> for NULL
LastCircle(h, cell, halfspace) ==
  LET keys == {k \in CircleKeys(h, cell) :
                 cell.surfaces[k].halfspace = halfspace}
  IN  IF keys = {} THEN <<>> ELSE <<cell.surfaces[Max(keys)].surface>>

\* radius1, x1, y1 (radius2, x2, y2): 0 while the circle is NULL
RadiusOf(h, circle) ==
  IF circle = <<>> THEN I(0) ELSE h.surfaces[circle[1] + 1].radius

CenterOf(h, circle) ==
  IF circle = <<>> THEN Point(I(0), I(0))
  ELSE h.surfaces[circle[1] + 1].center

\* sqrt
Sqrt(v) ==
  IF ~IsFinite(v) \/ v[1] < 0 THEN NaN
  ELSE IF HasRoot(v) THEN RSqrt(v) ELSE Root(v)

\* A variant of the area that takes the inner radius to be 0.
RingAreaFromCentre(radius1, radius2, n) == RDiv(Squared(radius1), I(n))

\* area / M_PI: fabs(radius1^2 - radius2^2) / _num_rings
RingArea(radius1, radius2, n) ==
  RDiv(RAbs(RSub(Squared(radius1), Squared(radius2))), I(n))

\* The radii of the circles made: radius1, then sqrt(radius1^2 - area / M_PI)
\* of the one before
RECURSIVE RingRadii(_, _, _)
RingRadii(radius1, area, n) ==
  IF n <= 1 THEN <<radius1>>
  ELSE <<radius1>> \o
       RingRadii(Sqrt(RSub(Squared(radius1), area)), area, n - 1)

\* A variant of the cells the rings are cloned from that forgets the sectors.
RingSourcesUnsectorized(h, c) == <<c>>

\* The cells the rings are cloned from: the sectors, or the cell itself
RingSources(h, c) ==
  IF h.cells[c + 1].sectors # <<>> THEN h.cells[c + 1].sectors ELSE <<c>>

\* A variant of the circles of a ring with the halfspaces exchanged.
RingBoundsInsideOut(k, n, first) ==
  IF k + 1 = n
  THEN <<[halfspace |-> 1, surface |-> first + k]>>
  ELSE <<[halfspace |-> 1, surface |-> first + k],
         [halfspace |-> -1, surface |-> first + k + 1]>>

\* The circles ring k is given, the circles being the surfaces from first on
RingBounds(k, n, first) ==
  IF k + 1 = n
  THEN <<[halfspace |-> -1, surface |-> first + k]>>
  ELSE <<[halfspace |-> -1, surface |-> first + k],
         [halfspace |-> 1, surface |-> first + k + 1]>>

\* An ERROR whose message reads the id of a circle: with the circle NULL the
\* read is undefined, the process is killed or the error is raised.
ErrorNaming(h, circles) ==
  IF \E circle \in circles : circle = <<>>
  THEN {[h |-> h, outcome |-> "crash"], [h |-> h, outcome |-> "error"]}
  ELSE {[h |-> h, outcome |-> "error"]}

\* The part of ringify after the checks: the circles are made, then for each
\* circle, and inside for each of the cells the rings are cloned from, a
\* clone with no rings and no sectors and with its circles is appended to
\* _rings; _subcells becomes _rings.
MakeRings(h, c, radius1, radius2, center1) ==
  LET n == h.cells[c + 1].num_rings
      first == Len(h.surfaces)
      radii == RingRadii(radius1, RingArea(radius1, radius2, n), n)
      h1 == AllocSurfaces(h, [k \in 1 .. n |->
                                Circle(center1[1], center1[2], radii[k])])
      sources == RingSources(h, c)
      m == Len(sources)
      rings == [j \in 1 .. (n * m) |->
                  Subcell(h1, CloneObject(h1, j - 1, sources[((j - 1) % m) + 1]),
                          RingBounds((j - 1) \div m, n, first))]
      h2 == AllocCells(h1, rings)
  IN  [h2 EXCEPT
         !.cells[c + 1].rings = @ \o NewCells(h1, n * m),
         !.cells[c + 1].subcells =
            h.cells[c + 1].rings \o NewCells(h1, n * m)]

\* CellBasic::ringify: the heaps it can leave and how it ended
Ringify(h, c) ==
  LET cell == h.cells[c + 1]
      num_circles == Cardinality(CircleKeys(h, cell))
      circle1 == LastCircle(h, cell, -1)
      circle2 == LastCircle(h, cell, 1)
      radius1 == RadiusOf(h, circle1)
      radius2 == RadiusOf(h, circle2)
      center1 == CenterOf(h, circle1)
      center2 == CenterOf(h, circle2)
  IN  IF cell.num_rings = 0 THEN {[h |-> h, outcome |-> "returned"]}
      ELSE IF num_circles = 0 /\ Raises("ERROR") THEN ErrorNaming(h, {})
      ELSE IF num_circles > 2 /\ Raises("NORMAL") THEN ErrorNaming(h, {})
      ELSE IF center1[1] # center2[1] /\ num_circles = 2 /\ Raises("ERROR")
      THEN ErrorNaming(h, {circle1, circle2})
      ELSE IF center1[2] # center2[2] /\ num_circles = 2 /\ Raises("ERROR")
      THEN ErrorNaming(h, {circle1, circle2})
      ELSE IF circle1 = <<>> /\ circle2 # <<>> /\ Raises("ERROR")
      THEN ErrorNaming(h, {circle2})
      ELSE IF ~RGt(radius1, radius2) /\ Raises("ERROR")
      THEN ErrorNaming(h, {circle1, circle2})
      ELSE {[h |-> MakeRings(h, c, radius1, radius2, center1),
             outcome |-> "returned"]}

\* CellBasic::subdivideCell: sectorize(), ringify(), return _subcells. The
\* result keeps the heap of before the call and the heap between the two.
SubdivideCell(c) ==
  LET sectorized == Sectorize(Heap, c)
  IN  \E o \in Ringify(sectorized, c) :
        /\ Install(o.h)
        /\ raised' = (o.outcome # "returned")
        /\ result' = [op |-> "subdivideCell", cell |-> c,
                      outcome |-> o.outcome, was |-> Heap,
                      sectorized |-> sectorized,
                      value |-> IF o.outcome = "returned"
                                THEN o.h.cells[c + 1].subcells ELSE <<>>]

\* clone() called by the user
Clone(c) ==
  /\ Install(AllocCells(Heap, <<CloneObject(Heap, 0, c)>>))
  /\ raised' = FALSE
  /\ result' = [op |-> "clone", cell |-> c, value |-> Len(cells),
                was |-> Heap]

\* CellBasic::setNumRings
SetNumRings(c, num_rings) ==
  /\ raised' = (num_rings < 0 /\ Raises("ERROR"))
  /\ cells' = IF raised' THEN cells
              ELSE [cells EXCEPT ![c + 1].num_rings = num_rings]
  /\ result' = [op |-> "setNumRings", cell |-> c, value |-> num_rings,
                was |-> cells[c + 1].num_rings]
  /\ UNCHANGED <<surf_auto_id, surf_n, cell_auto_id, cell_n, surfaces>>

\* A variant of setNumSectors that stores a count of 1 as it is.
SetNumSectorsAsGiven(c, num_sectors) ==
  /\ raised' = (num_sectors < 0 /\ Raises("ERROR"))
  /\ cells' = IF raised' THEN cells
              ELSE [cells EXCEPT ![c + 1].num_sectors = num_sectors]
  /\ result' = [op |-> "setNumSectors", cell |-> c, value |-> num_sectors,
                was |-> cells[c + 1].num_sectors]
  /\ UNCHANGED <<surf_auto_id, surf_n, cell_auto_id, cell_n, surfaces>>

\* CellBasic::setNumSectors
SetNumSectors(c, num_sectors) ==
  /\ raised' = (num_sectors < 0 /\ Raises("ERROR"))
  /\ cells' = IF raised' THEN cells
              ELSE [cells EXCEPT ![c + 1].num_sectors =
                      IF num_sectors = 1 THEN 0 ELSE num_sectors]
  /\ result' = [op |-> "setNumSectors", cell |-> c, value |-> num_sectors,
                was |-> cells[c + 1].num_sectors]
  /\ UNCHANGED <<surf_auto_id, surf_n, cell_auto_id, cell_n, surfaces>>

\* A run of the subdivision: surfaces and one cell are constructed, the cell
\* is bounded and its counts are set; then it is subdivided or cloned.
\* The cell of the user, once constructed.
UserCells == IF cells = <<>> THEN {} ELSE {0}

\* Nothing has been subdivided or cloned yet.
SettingUp == IF cells = <<>> THEN TRUE ELSE Tail(cells) = <<>>

\* The cells clone() was called for by the user: those that are in no list
\* of sectors and no list of rings.
Cloned ==
  {c \in (0 .. (Len(cells) - 1)) \ UserCells :
     \A j \in DOMAIN cells :
       /\ \A k \in DOMAIN cells[j].sectors : cells[j].sectors[k] # c
       /\ \A k \in DOMAIN cells[j].rings : cells[j].rings[k] # c}

ConstructPinSurface ==
  /\ SettingUp
  /\ Len(surfaces) < MaxPinSurfaces
  /\ \E shape \in PinShapes :
       /\ \A i \in DOMAIN surfaces :
            [f \in DOMAIN shape |-> surfaces[i][f]] # shape
       /\ NewSurface(shape, 0)
  /\ UNCHANGED <<solverVars, sweepVars>>

ConstructPinCell ==
  /\ cell_n = 0
  /\ \E rings \in RingCounts, sectors \in SectorCounts :
       NewCell(0, 1, rings, sectors, 0)
  /\ UNCHANGED <<solverVars, sweepVars>>

BoundPinCell ==
  /\ SettingUp
  /\ \E c \in UserCells, u \in 0 .. (Len(surfaces) - 1),
        halfspace \in {-1, 1} : AddSurface(c, halfspace, u)
  /\ UNCHANGED <<solverVars, sweepVars>>

Subdivide ==
  /\ \E c \in UserCells :
       /\ cells[c + 1].sectors = <<>>
       /\ cells[c + 1].rings = <<>>
       /\ Cloned = {}
       /\ SubdivideCell(c)
  /\ UNCHANGED <<solverVars, sweepVars>>

CloneByUser ==
  /\ Cardinality(Cloned) < MaxClones
  /\ \E c \in UserCells : Clone(c)
  /\ UNCHANGED <<solverVars, sweepVars>>

SubdivideNext ==
  \/ ConstructPinSurface
  \/ ConstructPinCell
  \/ BoundPinCell
  \/ Subdivide
  \/ CloneByUser

SpecSubdivide == GeometryInit /\ [][SubdivideNext]_vars

\* subdivideCell() is called once more on the cell it has just returned for.
SubdivideAgain ==
  /\ result.op = "subdivideCell"
  /\ result.outcome = "returned"
  /\ result.was.cells[result.cell + 1].sectors = <<>>
  /\ result.was.cells[result.cell + 1].rings = <<>>
  /\ SubdivideCell(result.cell)
  /\ UNCHANGED <<solverVars, sweepVars>>

ResubdivideNext == SubdivideNext \/ SubdivideAgain

SpecResubdivide == GeometryInit /\ [][ResubdivideNext]_vars

\* The counts of a cell are set, at its construction and afterwards.
SetRings ==
  /\ SettingUp
  /\ \E c \in UserCells, num_rings \in RingCounts : SetNumRings(c, num_rings)
  /\ UNCHANGED <<solverVars, sweepVars>>

SetSectors ==
  /\ SettingUp
  /\ \E c \in UserCells, num_sectors \in SectorCounts :
       SetNumSectors(c, num_sectors)
  /\ UNCHANGED <<solverVars, sweepVars>>

CountsNext == ConstructPinCell \/ SetRings \/ SetSectors

SpecCounts == GeometryInit /\ [][CountsNext]_vars

----------------------------------------------------------------------------
(* Extents and locations of surfaces *)

\* The surfaces of one run of the extent queries.
MaxExtentSurfaces == 2

\* The surfaces the extents are asked of.
ExtentShapes ==
  {XPlane(I(3)), YPlane(I(4)), ZPlane(I(1)), Plane(I(1), I(1), I(-7)),
   Plane(I(1), I(0), I(-3)), Circle(I(1), I(0), I(2)),
   Circle(I(0), I(0), I(5))}

\* The locations setX, setY and setZ are called with.
Locations == {I(-2), I(3), I(5)}

\* The extent queries.
ExtentQueries == {"getXMin", "getXMax", "getYMin", "getYMax"}

\* Plane::getXMin, XPlane::getXMin, YPlane::getXMin, ZPlane::getXMin and
\* Circle::getXMin: whether the call ends in log_printf(ERROR, ...) and the
\* value of its return statement.
GetXMin(s) ==
  CASE s.type = "PLANE" -> [raises |-> Raises("ERROR"), value |-> NegInf]
    [] s.type = "XPLANE" -> [raises |-> FALSE, value |-> s.coord]
    [] s.type = "YPLANE" -> [raises |-> FALSE, value |-> NegInf]
    [] s.type = "ZPLANE" -> [raises |-> FALSE, value |-> NegInf]
    [] s.type = "CIRCLE" ->
         [raises |-> FALSE, value |-> RSub(s.center[1], s.radius)]

\* getXMax of the five classes
GetXMax(s) ==
  CASE s.type = "PLANE" -> [raises |-> Raises("ERROR"), value |-> PosInf]
    [] s.type = "XPLANE" -> [raises |-> FALSE, value |-> s.coord]
    [] s.type = "YPLANE" -> [raises |-> FALSE, value |-> PosInf]
    [] s.type = "ZPLANE" -> [raises |-> FALSE, value |-> PosInf]
    [] s.type = "CIRCLE" ->
         [raises |-> FALSE, value |-> RAdd(s.center[1], s.radius)]

\* getYMin of the five classes
GetYMin(s) ==
  CASE s.type = "PLANE" -> [raises |-> Raises("ERROR"), value |-> NegInf]
    [] s.type = "XPLANE" -> [raises |-> FALSE, value |-> NegInf]
    [] s.type = "YPLANE" -> [raises |-> FALSE, value |-> s.coord]
    [] s.type = "ZPLANE" -> [raises |-> FALSE, value |-> NegInf]
    [] s.type = "CIRCLE" ->
         [raises |-> FALSE, value |-> RSub(s.center[2], s.radius)]

\* getYMax of the five classes
GetYMax(s) ==
  CASE s.type = "PLANE" -> [raises |-> Raises("ERROR"), value |-> PosInf]
    [] s.type = "XPLANE" -> [raises |-> FALSE, value |-> PosInf]
    [] s.type = "YPLANE" -> [raises |-> FALSE, value |-> s.coord]
    [] s.type = "ZPLANE" -> [raises |-> FALSE, value |-> PosInf]
    [] s.type = "CIRCLE" ->
         [raises |-> FALSE, value |-> RAdd(s.center[2], s.radius)]

\* surface->getXMin() and the other three, dispatched on the type. A call
\* that raises returns nothing.
Extent(u, query) ==
  LET s == surfaces[u + 1]
      out == CASE query = "getXMin" -> GetXMin(s)
               [] query = "getXMax" -> GetXMax(s)
               [] query = "getYMin" -> GetYMin(s)
               [] query = "getYMax" -> GetYMax(s)
  IN  /\ result' = [op |-> query, surface |-> u, returned |-> ~out.raises,
                    value |-> out.value]
      /\ raised' = out.raises
      /\ UNCHANGED <<surf_auto_id, surf_n, cell_auto_id, cell_n, surfaces,
                     cells>>

\* XPlane::setX, YPlane::setY and ZPlane::setZ: the one assignment to _x,
\* _y or _z.
SetLocation(u, location) ==
  /\ surfaces' = [surfaces EXCEPT ![u + 1].coord = location]
  /\ result' = [op |-> "setLocation", surface |-> u, value |-> location]
  /\ raised' = FALSE
  /\ UNCHANGED <<surf_auto_id, surf_n, cell_auto_id, cell_n, cells>>

\* XPlane::getX, YPlane::getY and ZPlane::getZ
GetLocation(s) == s.coord

\* The classes that have a location and its setter.
AxisPlanes == {"XPLANE", "YPLANE", "ZPLANE"}

ConstructExtentSurface ==
  /\ surf_n < MaxExtentSurfaces
  /\ \E shape \in ExtentShapes : NewSurface(shape, 0)
  /\ UNCHANGED <<solverVars, sweepVars>>

MovePlane ==
  /\ \E u \in 0 .. (surf_n - 1), location \in Locations :
       /\ surfaces[u + 1].type \in AxisPlanes
       /\ SetLocation(u, location)
  /\ UNCHANGED <<solverVars, sweepVars>>

AskExtent ==
  /\ \E u \in 0 .. (surf_n - 1), query \in ExtentQueries : Extent(u, query)
  /\ UNCHANGED <<solverVars, sweepVars>>

ExtentNext == ConstructExtentSurface \/ MovePlane \/ AskExtent

SpecExtent == GeometryInit /\ [][ExtentNext]_vars

----------------------------------------------------------------------------
(* Claims about the solver, under SpecSolver *)

\* computeKeff has run at least once.
KeffComputed == stage = "normalize" /\ iteration >= 1

\* The plain sum over the regions and the groups the solver holds.
Sum2(f(_, _)) ==
  SumOver(FSRs, [r \in FSRs |-> SumOver(Groups, [e \in Groups |-> f(r, e)])])

FissionRate(r, e) == RMul(RMul(NuSigmaF(e), scalar_flux[r][e]), Volume(r))

AbsorptionRate(r, e) == RMul(RMul(SigmaA(e), scalar_flux[r][e]), Volume(r))

\* Half the summed boundary leakage.
HalfSummedLeakage ==
  RMul(SumOver(Tracks, [t \in Tracks |-> SumOver({0, 1}, [d \in {0, 1} |->
         SumOver(Polars, [p \in Polars |-> SumOver(Groups, [e \in Groups |->
           boundary_leakage[t][d][p][e]])])])]),
       Q(1, 2))

\* C1: after computeKeff, k_eff is the total fission production over the
\* total absorption plus half the summed boundary leakage; and in the
\* one-group problem with Sigma_t = 1, Sigma_s = 0.9, nuSigmaF = 0.2 and only
\* reflective boundaries k_eff is 2 and the leakage is 0.
C1_KeffIsProductionOverLoss ==
  KeffComputed =>
    /\ REq(k_eff, RDiv(Sum2(FissionRate),
                       RAdd(Sum2(AbsorptionRate), HalfSummedLeakage)))
    /\ (geom_groups = 1 /\ bc = 1) => (k_eff = I(2) /\ leakage = I(0))

\* C2: after normalizeFluxes the total fission production is 1, and every
\* flux entry is its old value divided by F, the production before the call
\* (which normalizeFluxes leaves in _fission_source).
C2_NormalizedProductionIsOne ==
  stage = "sources" =>
    /\ Sum2(FissionRate) = I(1)
    /\ \A r \in FSRs, e \in Groups :
         RMul(FissionRate(r, e),
              SumOver(FSRs, [q \in FSRs |->
                SumOver(Groups, [g \in Groups |-> fission_source[q][g]])]))
           = fission_source[r][e]

\* C3: after setGeometry the padded group count is a multiple of the vector
\* length, is at least the original group count, and is the smallest such.
C3_GroupsRoundedUp ==
  stage # "constructed" =>
    /\ num_groups % vector_length = 0
    /\ num_groups >= geom_groups
    /\ num_groups - vector_length < geom_groups
    /\ num_groups = num_vector_lengths * vector_length

\* C9: with reflective conditions at every track end, the leakage that
\* computeKeff computes after any number of sweeps is exactly 0.
C9_ReflectiveLeakageIsZero ==
  (KeffComputed /\ bc = 1) => leakage = I(0)

\* The sign of evaluate(point) is the halfspace of the entry, or the point
\* is on the surface.
Agrees(entry, point) ==
  LET v == Evaluate(surfaces[entry.surface + 1], point)
  IN  v = I(0) \/ Sign(v[1]) = entry.halfspace

\* The bounds of a cell: the shape and the halfspace of each entry.
Bounds(cell) ==
  {<<[f \in DOMAIN XPlane(I(0)) |-> surfaces[cell.surfaces[key].surface + 1][f]],
     cell.surfaces[key].halfspace>> : key \in DOMAIN cell.surfaces}

\* The cell x > 0, y > 0, x^2 + y^2 < 1
QuarterDisc(cell) ==
  Bounds(cell) = {<<XPlane(I(0)), 1>>, <<YPlane(I(0)), 1>>,
                  <<Circle(I(0), I(0), I(1)), -1>>}

\* C4: cellContainsPoint returns true iff at every bounding surface of the
\* cell the sign of evaluate(p) is the stored halfspace or p is on the
\* surface; the quarter disc x > 0, y > 0, x^2 + y^2 < 1 contains (0.5, 0.5)
\* and contains neither (-0.1, 0.5) nor (0.8, 0.8).
C4_ContainsIffEverySignAgrees ==
  result.op = "cellContainsPoint" =>
    LET cell == cells[result.cell + 1]
    IN  /\ result.value <=>
             \A key \in DOMAIN cell.surfaces :
               Agrees(cell.surfaces[key], result.point)
        /\ QuarterDisc(cell) =>
             /\ result.point = Point(Q(1, 2), Q(1, 2)) => result.value
             /\ result.point \in {Point(Q(-1, 10), Q(1, 2)),
                                  Point(Q(4, 5), Q(4, 5))} => ~result.value

\* The quarter disc has been asked about (0.8, 0.8) and has answered no.
C4_QuarterDiscAsked ==
  /\ result.op = "cellContainsPoint"
  /\ QuarterDisc(cells[result.cell + 1])
  /\ result.point = Point(Q(4, 5), Q(4, 5))
  /\ ~result.value

\* C5: each point intersection() reports (the first num entries of the
\* output array) is on the surface, on the line of the ray through the start
\* point, and ahead of the start point in the direction of travel; tangent
\* and vertical rays included.
C5_ReportedPointsAreIntersections ==
  result.op = "intersection" =>
    \A i \in 0 .. (result.num - 1) :
      LET p == result.points[i]
          dx == RSub(p[1], result.point[1])
          dy == RSub(p[2], result.point[2])
          cos == I(result.angle[1])
          sin == I(result.angle[2])
      IN  /\ REq(Evaluate(surfaces[result.surface + 1], p), I(0))
          /\ REq(RMul(dx, sin), RMul(dy, cos))
          /\ RGt(RAdd(RMul(dx, cos), RMul(dy, sin)), I(0))

\* No object of the family with a user id carries a reserved id or the id
\* of an object whose id was generated.
UserIdsApart(family) ==
  \A i \in DOMAIN family :
    family[i].requested # 0 =>
      /\ family[i].id < FirstAutoId
      /\ \A j \in DOMAIN family :
           family[j].requested = 0 => family[j].id # family[i].id

\* C10: a construction with a user id >= 10000 is rejected with an error,
\* one with a user id in 1..9999 keeps that id, one with id 0 gets a
\* generated id >= 10000; no object with a user id carries an id >= 10000 or
\* the id of a generated object of its family.
C10_ReservedIdsRejected ==
  /\ result.op \in {"Surface", "Cell"} =>
       /\ result.requested >= FirstAutoId => raised
       /\ result.requested \in 1 .. (FirstAutoId - 1) =>
            ~raised /\ result.id = result.requested
       /\ result.requested = 0 => ~raised /\ result.id >= FirstAutoId
  /\ UserIdsApart(surfaces)
  /\ UserIdsApart(cells)


\* The threads of the team once the sweep has begun.
Team == IF threads = <<>> THEN {} ELSE Threads

\* The thread is inside an iteration of the loop over the tracks.
Active(th) == threads[th].pc # "idle"

\* The FSR locks a thread holds.
Held(th) == {r \in FSRs : th \in holders[r]}

\* The thread is between omp_set_lock and omp_unset_lock.
InCritical(th) == threads[th].pc \in {"read", "write", "unlock"}

C7_HalvesInSequence ==
  \A a \in Team :
    /\ (Active(a) /\ threads[a].track \in HalfTrackSet(1)) =>
         HalfTrackSet(0) \subseteq swept
    /\ threads[a].pc = "transfer" =>
         \A b \in Team \ {a} :
           ~ /\ Active(b)
             /\ threads[b].track = OutTrack(threads[a].track, threads[a].forward)
             /\ CurrentSlot(threads[b]) =
                  OutSlot(threads[a].track, threads[a].forward)

\* Two threads are inside tracks of the second half, one of them about to
\* hand its flux to a track of the first half.
C7_SecondHalfRunning ==
  \E a, b \in Team :
    /\ a # b
    /\ threads[a].pc = "transfer"
    /\ threads[a].track \in HalfTrackSet(1)
    /\ Active(b)
    /\ threads[b].track \in HalfTrackSet(1)

\* C8: at the end of a sweep the scalar flux is what the inputs of the sweep
\* determine, the flux one thread computes from them, whatever the order in
\* which the threads ran: no increment is lost and none is added twice.
C8_FluxIndependentOfInterleaving ==
  (stage = "addSource" /\ half = 2) =>
    scalar_flux = SweepSequential(sweep_in).sf

\* The key addSurface stores under: the id of the surface.
StoredUnder(u) == surfaces[u + 1].id

\* C11: addSurface with a halfspace other than -1 or +1 ends in an error and
\* leaves the cell's surface map as it was; with -1 or +1 it returns with
\* the map holding that (surface, halfspace) pair under the id of the
\* surface, every other entry of the map being as it was.
C11_AddSurfaceChecksHalfspace ==
  result.op = "addSurface" =>
    LET map == cells[result.cell + 1].surfaces
        key == StoredUnder(result.surface)
    IN  IF result.halfspace \notin {-1, 1}
        THEN raised /\ map = result.was
        ELSE /\ ~raised
             /\ DOMAIN map = DOMAIN result.was \cup {key}
             /\ map[key] = [surface |-> result.surface,
                             halfspace |-> result.halfspace]
             /\ \A k \in DOMAIN result.was \ {key} : map[k] = result.was[k]

\* addSurface has been called with a halfspace of 2 on a cell that holds two
\* entries.
C11_RejectedOnBoundedCell ==
  /\ result.op = "addSurface"
  /\ result.halfspace = 2
  /\ raised
  /\ Cardinality(DOMAIN result.was) = 2

----------------------------------------------------------------------------
(* Claims about the counts of a cell, under SpecCounts *)

\* C19: every material cell has num_rings >= 0, num_sectors >= 0 and
\* num_sectors # 1, after its construction and after every call of a setter:
\* a call with a negative count ends in an error and leaves the stored count
\* as it was, setNumSectors(1) stores 0, and every other call stores the
\* count given. A constructor given a negative count leaves no cell.
C19_CountsNeverNegativeNorOneSector ==
  /\ \A i \in DOMAIN cells :
       /\ cells[i].num_rings >= 0
       /\ cells[i].num_sectors >= 0
       /\ cells[i].num_sectors # 1
  /\ result.op = "setNumRings" =>
       IF result.value < 0
       THEN raised /\ cells[result.cell + 1].num_rings = result.was
       ELSE ~raised /\ cells[result.cell + 1].num_rings = result.value
  /\ result.op = "setNumSectors" =>
       IF result.value < 0
       THEN raised /\ cells[result.cell + 1].num_sectors = result.was
       ELSE IF result.value = 1
       THEN ~raised /\ cells[result.cell + 1].num_sectors = 0
       ELSE ~raised /\ cells[result.cell + 1].num_sectors = result.value
  /\ (result.op = "Cell" /\ raised) => cells = <<>>

\* setNumSectors(1) has been called on a cell of four sectors, which has none
\* now.
C19_OneSectorOnFourSectors ==
  /\ result.op = "setNumSectors"
  /\ result.value = 1
  /\ result.was = 4
  /\ cells[result.cell + 1].num_sectors = 0

----------------------------------------------------------------------------
(* Claims about clone() and the subdivision, under SpecSubdivide *)

\* C20: clone() of a material cell returns a new cell with a uid and an id
\* that no cell had, the id being an auto-generated one (>= 10000), with the
\* universe, material, num_rings and num_sectors of the original and a
\* surface map equal to the original's (the same surfaces with the same
\* halfspaces); its lists of rings, sectors and subcells are empty, no
\* surface is created, and the original and every other cell are as before.
C20_CloneCopiesCellSharesSurfaces ==
  result.op = "clone" =>
    LET was == result.was
        orig == was.cells[result.cell + 1]
        new_cell == cells[result.value + 1]
    IN  /\ ~raised
        /\ Len(cells) = Len(was.cells) + 1
        /\ \A i \in DOMAIN was.cells :
             /\ cells[i] = was.cells[i]
             /\ new_cell.uid # was.cells[i].uid
             /\ new_cell.id # was.cells[i].id
        /\ new_cell.id >= FirstAutoId
        /\ new_cell.universe = orig.universe
        /\ new_cell.material = orig.material
        /\ new_cell.num_rings = orig.num_rings
        /\ new_cell.num_sectors = orig.num_sectors
        /\ new_cell.surfaces = orig.surfaces
        /\ new_cell.rings = <<>>
        /\ new_cell.sectors = <<>>
        /\ new_cell.subcells = <<>>
        /\ surfaces = was.surfaces
        /\ surf_n = was.surf_n
        /\ surf_auto_id = was.surf_auto_id

\* A subdivided cell bounded by two surfaces has been cloned.
C20_SubdividedCellCloned ==
  /\ result.op = "clone"
  /\ cells[result.cell + 1].subcells # <<>>
  /\ Cardinality(DOMAIN cells[result.cell + 1].surfaces) = 2

\* The cell subdivideCell was called on, as it was before the call.
Subdivided == result.was.cells[result.cell + 1]

\* The surfaces made by the sectorize() of the call, in the order made.
PlanesMade ==
  SubSeq(result.sectorized.surfaces, Len(result.was.surfaces) + 1,
         Len(result.sectorized.surfaces))

\* The cells made by the sectorize() of the call, in the order made.
SectorsMade ==
  SubSeq(result.sectorized.cells, Len(result.was.cells) + 1,
         Len(result.sectorized.cells))

\* (cos, sin) of i * 2 pi / n for i = 0 .. n - 1, n being 2 or 4
Directions(n) ==
  IF n = 2 THEN <<<<I(1), I(0)>>, <<I(-1), I(0)>>>>
  ELSE <<<<I(1), I(0)>>, <<I(0), I(1)>>, <<I(-1), I(0)>>, <<I(0), I(-1)>>>>

\* The entry of a map for the surface at place u, if it is the only one
Bound(all, u, halfspace) ==
  all[u + 1].id :> [surface |-> u, halfspace |-> halfspace]

\* C12: sectorizing a cell with num_sectors = n >= 2 creates exactly n planes,
\* plane i with (A, B, C) = (cos(i 2 pi / n), sin(i 2 pi / n), 0), and
\* exactly n sector cells; sector i has the universe, the material and all
\* the surfaces of the cell, and besides holds plane i with halfspace +1 and,
\* unless n = 2, plane (i + 1) mod n with halfspace -1, and nothing else; its
\* num_rings and num_sectors are 0. The sectors are the cell's list of
\* sectors, and the ringify() that follows leaves them as they are.
C12_SectorsBetweenPlanes ==
  (result.op = "subdivideCell" /\ Subdivided.num_sectors >= 2) =>
    LET n == Subdivided.num_sectors
        first == Len(result.was.surfaces)
        mid == result.sectorized
    IN  /\ Len(PlanesMade) = n
        /\ Len(SectorsMade) = n
        /\ SubSeq(mid.surfaces, 1, first) = result.was.surfaces
        /\ mid.cells[result.cell + 1].sectors =
             [i \in 1 .. n |-> Len(result.was.cells) + i - 1]
        /\ \A i \in 0 .. (n - 1) :
             /\ PlanesMade[i + 1].type = "PLANE"
             /\ PlanesMade[i + 1].A = Directions(n)[i + 1][1]
             /\ PlanesMade[i + 1].B = Directions(n)[i + 1][2]
             /\ PlanesMade[i + 1].C = I(0)
             /\ SectorsMade[i + 1].universe = Subdivided.universe
             /\ SectorsMade[i + 1].material = Subdivided.material
             /\ SectorsMade[i + 1].num_rings = 0
             /\ SectorsMade[i + 1].num_sectors = 0
             /\ SectorsMade[i + 1].surfaces =
                  IF n = 2
                  THEN Bound(mid.surfaces, first + i, 1) @@ Subdivided.surfaces
                  ELSE Bound(mid.surfaces, first + i, 1) @@
                       Bound(mid.surfaces, first + ((i + 1) % n), -1) @@
                       Subdivided.surfaces
             /\ cells[Len(result.was.cells) + i + 1] = SectorsMade[i + 1]

\* A cell of four sectors bounded by two surfaces has been subdivided.
C12_FourSectorsMade ==
  /\ result.op = "subdivideCell"
  /\ Subdivided.num_sectors = 4
  /\ Cardinality(DOMAIN Subdivided.surfaces) = 2
  /\ Len(cells[result.cell + 1].sectors) = 4

\* The surfaces made by the ringify() of the call, in the order made.
CirclesMade ==
  SubSeq(surfaces, Len(result.sectorized.surfaces) + 1, Len(surfaces))

\* The cells made by the ringify() of the call, in the order made.
RingsMade == SubSeq(cells, Len(result.sectorized.cells) + 1, Len(cells))

\* The CIRCLE surfaces that bound the subdivided cell with the halfspace.
CirclesOf(halfspace) ==
  {result.was.surfaces[Subdivided.surfaces[k].surface + 1] :
     k \in {j \in DOMAIN Subdivided.surfaces :
              /\ Subdivided.surfaces[j].halfspace = halfspace
              /\ result.was.surfaces[Subdivided.surfaces[j].surface + 1].type
                   = "CIRCLE"}}

\* The cell lies inside one circle and outside at most one.
Annular ==
  /\ Cardinality(CirclesOf(-1)) = 1
  /\ Cardinality(CirclesOf(1)) <= 1

Outer == CHOOSE circle \in CirclesOf(-1) : TRUE

\* R_out^2 and R_in^2
OuterSquare == RMul(Outer.radius, Outer.radius)

InnerSquare ==
  IF CirclesOf(1) = {} THEN I(0)
  ELSE LET inner == CHOOSE circle \in CirclesOf(1) : TRUE
       IN  RMul(inner.radius, inner.radius)

\* The square of the radius of a circle, from its coefficients
SquareOf(circle) ==
  RSub(RAdd(RMul(circle.center[1], circle.center[1]),
            RMul(circle.center[2], circle.center[2])), circle.E)

\* subdivideCell returned from a cell of n >= 1 rings.
Ringified ==
  /\ result.op = "subdivideCell"
  /\ result.outcome = "returned"
  /\ Subdivided.num_rings >= 1

\* C13: ringifying a cell with outer radius R_out, inner radius R_in (0 with
\* no inner circle) and num_rings = n >= 1 creates exactly n circles, all
\* centred where the outer circle is, circle k (k = 0 .. n - 1) with squared
\* radius R_out^2 - k (R_out^2 - R_in^2) / n; so the rings, the innermost
\* one down to R_in included, each have the area pi (R_out^2 - R_in^2) / n.
C13_RingsOfEqualArea ==
  (Ringified /\ Annular) =>
    LET n == Subdivided.num_rings
        share == RDiv(RSub(OuterSquare, InnerSquare), I(n))
        inside(k) == IF k = n THEN InnerSquare ELSE SquareOf(CirclesMade[k + 1])
    IN  /\ Len(CirclesMade) = n
        /\ \A k \in 0 .. (n - 1) :
             /\ CirclesMade[k + 1].type = "CIRCLE"
             /\ CirclesMade[k + 1].center = Outer.center
             /\ SquareOf(CirclesMade[k + 1]) =
                  RSub(OuterSquare, RMul(I(k), share))
             /\ Squared(CirclesMade[k + 1].radius) =
                  SquareOf(CirclesMade[k + 1])
             /\ RSub(SquareOf(CirclesMade[k + 1]), inside(k + 1)) = share

\* A disc of radius 1 has been cut into four rings, with circles of squared
\* radius 1, 3/4, 1/2 and 1/4; or an annulus between radius 1 and radius 2
\* has been cut into two, with circles of squared radius 4 and 5/2.
C13_DiscOrAnnulusRingified ==
  /\ Ringified
  /\ Annular
  /\ \/ /\ Subdivided.num_rings = 4
        /\ OuterSquare = I(1)
        /\ InnerSquare = I(0)
        /\ [k \in 1 .. 4 |-> SquareOf(CirclesMade[k])] =
             <<I(1), Q(3, 4), Q(1, 2), Q(1, 4)>>
     \/ /\ Subdivided.num_rings = 2
        /\ OuterSquare = I(4)
        /\ InnerSquare = I(1)
        /\ [k \in 1 .. 2 |-> SquareOf(CirclesMade[k])] = <<I(4), Q(5, 2)>>

\* The cells the rings of the call are clones of: the sector cells, or the
\* cell itself when it has none.
RingOrigins ==
  IF result.sectorized.cells[result.cell + 1].sectors = <<>>
  THEN {Subdivided}
  ELSE {result.sectorized.cells[s + 1] :
          s \in {result.sectorized.cells[result.cell + 1].sectors[i] :
                   i \in DOMAIN result.sectorized.cells[result.cell + 1].sectors}}

\* The surface map of ring k of n cloned from the origin: the origin's
\* surfaces, circle k with halfspace -1 and, unless k is the innermost ring,
\* circle k + 1 with halfspace +1.
RingMap(origin, k, n) ==
  LET first == Len(result.sectorized.surfaces)
  IN  IF k + 1 = n
      THEN Bound(surfaces, first + k, -1) @@ origin.surfaces
      ELSE Bound(surfaces, first + k, -1) @@
           Bound(surfaces, first + k + 1, 1) @@ origin.surfaces

\* C14: every ring cell made by ringify is a clone of the cell, or of one of
\* its sector cells when it was sectorized: it has the universe, the material
\* and all the surfaces of what it was cloned from, and besides holds, for
\* its ring index k, circle k with halfspace -1 and circle k + 1 with
\* halfspace +1, the innermost ring holding only circle n - 1 with halfspace
\* -1; its num_rings and num_sectors are 0.
C14_RingsBetweenCircles ==
  Ringified =>
    \A j \in DOMAIN RingsMade :
      /\ RingsMade[j].num_rings = 0
      /\ RingsMade[j].num_sectors = 0
      /\ \E origin \in RingOrigins, k \in 0 .. (Subdivided.num_rings - 1) :
           /\ RingsMade[j].universe = origin.universe
           /\ RingsMade[j].material = origin.material
           /\ RingsMade[j].surfaces = RingMap(origin, k, Subdivided.num_rings)
           /\ DOMAIN origin.surfaces \subseteq DOMAIN RingsMade[j].surfaces
           /\ \A key \in DOMAIN origin.surfaces :
                RingsMade[j].surfaces[key] = origin.surfaces[key]

\* A cell of two sectors and two rings has been subdivided into ring cells.
C14_RingsOfSectorsMade ==
  /\ Ringified
  /\ Subdivided.num_sectors = 2
  /\ Subdivided.num_rings = 2
  /\ RingsMade # <<>>

\* The cells subdivideCell returned that hold exactly the surfaces of the map.
ReturnedWith(map) ==
  {j \in DOMAIN result.value : cells[result.value[j] + 1].surfaces = map}

\* C15: subdivideCell sectorizes and then ringifies. From a cell not yet
\* subdivided, with s >= 2 sectors and r >= 1 rings it returns exactly s r
\* cells, exactly one for each pair of a sector and a ring, which carries the
\* surfaces of that sector and the circles of that ring; with sectors only it
\* returns the s sector cells, with rings only r cells, one for each ring.
C15_SubcellsAreSectorsTimesRings ==
  (result.op = "subdivideCell" /\ result.outcome = "returned") =>
    LET s == Subdivided.num_sectors
        r == Subdivided.num_rings
    IN  /\ result.value = cells[result.cell + 1].subcells
        /\ (s >= 2 /\ r >= 1) =>
             /\ Len(result.value) = s * r
             /\ \A i \in 1 .. s, k \in 0 .. (r - 1) :
                  Cardinality(ReturnedWith(RingMap(SectorsMade[i], k, r))) = 1
        /\ (s >= 2 /\ r = 0) =>
             /\ Len(result.value) = s
             /\ \A i \in 1 .. s :
                  result.value[i] = Len(result.was.cells) + i - 1
        /\ (s = 0 /\ r >= 1) =>
             /\ Len(result.value) = r
             /\ \A k \in 0 .. (r - 1) :
                  Cardinality(ReturnedWith(RingMap(Subdivided, k, r))) = 1

\* A cell of four sectors and two rings has been subdivided into eight cells.
C15_EightSubcellsReturned ==
  /\ result.op = "subdivideCell"
  /\ result.outcome = "returned"
  /\ Subdivided.num_sectors = 4
  /\ Subdivided.num_rings = 2
  /\ Len(result.value) = 8

\* The CIRCLE surfaces that bound the subdivided cell.
AllCircles == CirclesOf(-1) \cup CirclesOf(1)

\* The cell cannot be cut into rings: it has no circle, two circles about
\* different centres, only circles it lies outside of, or an outer circle
\* that is not larger than the inner one.
NotRingifiable ==
  \/ AllCircles = {}
  \/ /\ Cardinality(AllCircles) = 2
     /\ \E a, b \in AllCircles : a.center # b.center
  \/ AllCircles # {} /\ CirclesOf(-1) = {}
  \/ Annular /\ ~RGt(OuterSquare, InnerSquare)

\* ringify has made nothing: the surfaces and the cells, the subcell list of
\* the cell among them, are as sectorize left them.
NothingRingified ==
  /\ surfaces = result.sectorized.surfaces
  /\ cells = result.sectorized.cells

\* C16: ringify with num_rings >= 1 on a cell that has no CIRCLE surface, or
\* two circles whose centres differ, or only a circle with halfspace +1, or
\* R_out <= R_in, ends in an error, raised without the routine crashing, and
\* creates no circle and no ring cell and leaves the subcell list as it was.
C16_UnringifiableCellIsAnError ==
  (result.op = "subdivideCell" /\ Subdivided.num_rings >= 1
     /\ NotRingifiable) =>
    /\ result.outcome = "error"
    /\ NothingRingified

\* C17: a degenerate ring subdivision, of a cell with more than two CIRCLE
\* surfaces or with R_out <= R_in, gives only a warning: ringify returns
\* and the cell is left undivided, no circle and no ring cell being made.
C17_DegenerateSubdivisionOnlyWarns ==
  (result.op = "subdivideCell" /\ Subdivided.num_rings >= 1
     /\ \/ Cardinality(AllCircles) > 2
        \/ Annular /\ ~RGt(OuterSquare, InnerSquare)) =>
    /\ result.outcome = "returned"
    /\ NothingRingified


----------------------------------------------------------------------------
(* Claims about the normalisation of the fluxes *)

\* The solver as constructed over a material with or without fission.
NormalizeInit == Constructed /\ fissile \in BOOLEAN

\* The power iteration over either material.
SpecNormalize == NormalizeInit /\ [][SolverNext]_vars

\* normalizeFluxes has run to its end: the driver went on to the sources.
Normalized == stage = "normalize" /\ stage' = "sources"

\* C18: normalizeFluxes called when the total fission production, the sum of
\* nuSigmaF * phi * V over the regions and groups, is 0 raises a fatal error
\* there, so that the solver does not go on, and leaves the scalar and the
\* boundary fluxes as they were instead of scaling them by 1/0.
C18_ZeroFissionSourceIsFatal ==
  [][stage = "normalize" /\ TotalFissionSource(scalar_flux) = I(0)
       => /\ ~Normalized
          /\ scalar_flux' = scalar_flux
          /\ boundary_flux' = boundary_flux]_vars

----------------------------------------------------------------------------
(* Claims about the extents and the locations of surfaces *)

\* The surface the last query was asked of.
Asked == surfaces[result.surface + 1]

\* The extent of a surface in the direction of a query: the location of an
\* axis-aligned plane on its own axis, centre -/+ radius of a circle, and
\* -infinity or +infinity where the surface is unbounded.
ExtentOf(s, query) ==
  LET low == query \in {"getXMin", "getYMin"}
      axis == IF query \in {"getXMin", "getXMax"} THEN 1 ELSE 2
  IN  IF s.type = "CIRCLE"
      THEN IF low THEN RSub(s.center[axis], s.radius)
           ELSE RAdd(s.center[axis], s.radius)
      ELSE IF (s.type = "XPLANE" /\ axis = 1) \/ (s.type = "YPLANE" /\ axis = 2)
      THEN GetLocation(s)
      ELSE IF low THEN NegInf ELSE PosInf

\* C21: for every kind of surface each of getXMin, getXMax, getYMin and
\* getYMax returns a value and never fails: the location of an axis-aligned
\* plane on its axis, centre -/+ radius of a circle, and -infinity or
\* +infinity in every direction in which the surface is unbounded, all four
\* of a general PLANE included; and the minimum is never above the maximum.
C21_ExtentsReturnAndNeverFail ==
  /\ result.op \in ExtentQueries =>
        /\ ~raised
        /\ result.returned
        /\ result.value = ExtentOf(Asked, result.op)
  /\ \A i \in DOMAIN surfaces :
        /\ ~RGt(GetXMin(surfaces[i]).value, GetXMax(surfaces[i]).value)
        /\ ~RGt(GetYMin(surfaces[i]).value, GetYMax(surfaces[i]).value)

\* C28: for every XPlane, YPlane and ZPlane, after its construction and
\* after any calls of setX, setY and setZ, the stored location equals -C of
\* the implicit form of the plane, so that getX, getY and getZ and the
\* extents agree with evaluate and intersection on where the plane is.
C28_LocationIsMinusC ==
  \A i \in DOMAIN surfaces :
    surfaces[i].type \in AxisPlanes =>
      GetLocation(surfaces[i]) = RNeg(surfaces[i].C)

----------------------------------------------------------------------------
(* Claims about the direction test of intersection() *)

\* The ray of the last call travels exactly horizontally: angle 0 or pi.
Horizontal == result.angle[2] = 0

\* (angle < pi and y > y0) or (angle > pi and y < y0) for the last call
Toward(p) ==
  \/ BelowPi(result.angle) /\ RGt(p[2], result.point[2])
  \/ AbovePi(result.angle) /\ RLt(p[2], result.point[2])

\* C30: intersection() reports a candidate point iff (angle < pi and y > y0)
\* or (angle > pi and y < y0): every reported point passes the test and a
\* candidate written to the array and left unreported fails it; so a ray
\* travelling exactly horizontally gets 0 points from every plane and every
\* circle, also when the surface is crossed ahead of the start point.
C30_ReportedIffTowardInY ==
  result.op = "intersection" =>
    /\ \A i \in 0 .. (result.num - 1) : Toward(result.points[i])
    /\ (result.num < 2 /\ result.points[result.num] # result.was[result.num])
         => ~Toward(result.points[result.num])
    /\ Horizontal => result.num = 0

\* A horizontal ray from the origin has crossed XPlane(3) at (3, 0), and one
\* has crossed the circle of radius 5 about the origin at (-5, 0), and
\* the call has reported no point.
C30_HorizontalRayCrossesUnreported ==
  /\ result.op = "intersection"
  /\ result.point = Point(I(0), I(0))
  /\ result.num = 0
  /\ \/ /\ surfaces[result.surface + 1].type = "XPLANE"
        /\ result.angle = <<1, 0>>
        /\ result.points[0] = Point(I(3), I(0))
     \/ /\ surfaces[result.surface + 1].type = "CIRCLE"
        /\ result.angle = <<-1, 0>>
        /\ Point(I(-5), I(0)) \in {result.points[0], result.points[1]}

----------------------------------------------------------------------------
(* Claims about repeated subdivision and the sectors as a partition *)

\* What a surface is, apart from its ids
ShapeOf(s) ==
  [f \in {"type", "A", "B", "C", "D", "E", "radius", "center"} |-> s[f]]

\* The bounding surfaces of the cell at place c, each with its halfspace
Outline(all_cells, all_surfaces, c) ==
  LET map == all_cells[c + 1].surfaces
  IN  {[halfspace |-> map[key].halfspace,
        shape |-> ShapeOf(all_surfaces[map[key].surface + 1])] :
         key \in DOMAIN map}

\* A call of subdivideCell() has returned and the step is a second call on
\* the same cell, which returns too.
CalledAgain ==
  /\ result.op = "subdivideCell"
  /\ result.outcome = "returned"
  /\ result'.op = "subdivideCell"
  /\ result'.outcome = "returned"
  /\ result'.cell = result.cell
  /\ result'.was = Heap

\* C27: subdivideCell is repeatable: a second call on the same cell, with
\* its counts and surfaces unchanged, returns as many subcells as the first,
\* with the same structure of sectors and rings (the k-th subcell is bounded
\* by the same shapes with the same halfspaces); nothing of the earlier call
\* accumulates in what is returned.
C27_SubdivideCellRepeatable ==
  [][CalledAgain =>
       /\ Len(result'.value) = Len(result.value)
       /\ \A k \in DOMAIN result.value :
            Outline(cells', surfaces', result'.value[k]) =
              Outline(cells, surfaces, result.value[k])]_vars

\* The points the sectors are asked about: in each quadrant, inside and
\* outside the circles of the pin, and on the planes of the sectors.
PartitionPoints ==
  {Point(Q(1, 2), Q(1, 2)), Point(Q(-1, 2), Q(1, 2)),
   Point(Q(-1, 2), Q(-1, 2)), Point(Q(1, 2), Q(-1, 2)),
   Point(Q(3, 2), I(-1)), Point(Q(-3, 2), I(1)), Point(I(3), I(3)),
   Point(I(0), Q(1, 2)), Point(Q(1, 2), I(0)), Point(I(0), I(0))}

\* The point lies on one of the planes made by sectorize().
OnSectorPlane(point) ==
  \E i \in DOMAIN PlanesMade : Evaluate(PlanesMade[i], point) = I(0)

\* The sectors of the subdivided cell that contain the point
SectorsAround(point) ==
  {j \in DOMAIN SectorsMade : CellContainsPoint(SectorsMade[j], point)}

\* C29: the sector cells made by sectorize() partition their parent: for
\* n >= 2 sectors, every point that lies in the parent cell and on none of
\* the n planes is contained in exactly one of the n sector cells, and every
\* point contained in a sector cell is contained in the parent.
C29_SectorsPartitionTheCell ==
  (result.op = "subdivideCell" /\ Subdivided.num_sectors >= 2) =>
    \A point \in PartitionPoints :
      /\ SectorsAround(point) # {} => CellContainsPoint(Subdivided, point)
      /\ (CellContainsPoint(Subdivided, point) /\ ~OnSectorPlane(point))
           => Cardinality(SectorsAround(point)) = 1

\* A bounded cell has been cut into four sectors: the point
\* (1/2, -1/2) is in the cell and in its first sector only, (3, 3) is in
\* neither, and (0, 1/2), on a plane, is in two sectors.
C29_DiscCutIntoQuadrants ==
  /\ result.op = "subdivideCell"
  /\ Subdivided.num_sectors = 4
  /\ CellContainsPoint(Subdivided, Point(Q(1, 2), Q(-1, 2)))
  /\ SectorsAround(Point(Q(1, 2), Q(-1, 2))) = {1}
  /\ ~CellContainsPoint(Subdivided, Point(I(3), I(3)))
  /\ SectorsAround(Point(I(3), I(3))) = {}
  /\ Cardinality(SectorsAround(Point(I(0), Q(1, 2)))) = 2

----------------------------------------------------------------------------
(* Claims about the transport sweep and its tallies *)

\* The tracks a thread is inside an iteration of
Running == {threads[th].track : th \in {x \in Team : Active(x)}}

\* C22: one call of transportSweep, for every number of tracks N >= 1, even
\* or odd, first resets the scalar flux of every FSR to zero and then
\* processes every track 0 .. N - 1 exactly once, by a forward pass over its
\* segments, the forward transfer, a reverse pass and the reverse transfer:
\* before the first iteration starts the scalar flux is zero, no track is
\* at once finished and running or waiting, no two threads run the same
\* track, and when the call ends every track has been finished.
C22_SweepProcessesEveryTrackOnce ==
  /\ (stage = "sweeping" /\ half = 0 /\ swept = {} /\ Running = {}
        /\ unassigned = HalfTrackSet(0))
       => scalar_flux = Uniform2(FSRs, Groups, I(0))
  /\ stage = "sweeping" =>
       /\ swept \cap (unassigned \cup Running) = {}
       /\ unassigned \cap Running = {}
       /\ \A a, b \in Team :
            (Active(a) /\ Active(b) /\ threads[a].track = threads[b].track)
              => a = b
  /\ (stage = "addSource" /\ half = 2) => swept = Tracks

\* Thread th makes the step that is its call of transferBoundaryFlux.
Transfers(th) ==
  /\ stage = "sweeping"
  /\ threads[th].pc = "transfer"
  /\ threads'[th] # threads[th]

\* C23: for a track t with outgoing flux psi after a pass, the transfer
\* sets, for every polar angle p and group g, the incoming flux of the track
\* it leads to (track_out after the forward pass, track_in after the reverse
\* pass), in its reverse slot if the refl flag is set and in its forward
\* slot otherwise, to bc * psi[p, g], and the leakage entry of t for the
\* direction of the pass to psi[p, g] * w_p * (1 - bc); so with bc = 0 the
\* partner receives 0 and all of psi is leakage. No other entry of the
\* boundary flux or of the leakage is changed.
C23_TransferSetsPartnerAndLeakage ==
  [][\A th \in Team :
       Transfers(th) =>
         LET t == threads[th].track
             forward == threads[th].forward
             d == IF forward THEN 0 ELSE 1
             psi == boundary_flux[t][d]
             out == IF forward THEN TrackOut(t) ELSE TrackIn(t)
             refl == IF forward THEN ReflOut(t) ELSE ReflIn(t)
             slot == IF refl THEN 1 ELSE 0
         IN  /\ \A p \in Polars, g \in Groups :
                  /\ boundary_flux'[out][slot][p][g] = RMul(I(bc), psi[p][g])
                  /\ boundary_leakage'[t][d][p][g] =
                       RMul(RMul(psi[p][g], PolarWeight(p)), I(1 - bc))
             /\ \A t2 \in Tracks, d2 \in {0, 1} :
                  /\ <<t2, d2>> # <<out, slot>> =>
                       boundary_flux'[t2][d2] = boundary_flux[t2][d2]
                  /\ <<t2, d2>> # <<t, d>> =>
                       boundary_leakage'[t2][d2] = boundary_leakage[t2][d2]]_vars

\* With vacuum boundaries a track of the first half has made both its
\* transfers: its outgoing fluxes are counted as leakage and the slots of
\* its partners hold 0.
C23_VacuumTransferred ==
  /\ stage = "sweeping"
  /\ bc = 0
  /\ half = 0
  /\ \E t \in swept :
       /\ \A d \in {0, 1}, g \in Groups :
            RGt(boundary_leakage[t][d][0][g], I(0))
       /\ \A g \in Groups :
            /\ boundary_flux[TrackOut(t)][0][0][g] = I(0)
            /\ boundary_flux[TrackIn(t)][1][0][g] = I(0)

\* Thread th makes the step that tallies its segment into fsr_flux.
Tallies(th) ==
  /\ stage = "sweeping"
  /\ threads[th].pc = "tally"
  /\ threads'[th] # threads[th]

\* Thread th makes the step that stores the sums of vdAdd.
Adds(th) ==
  /\ stage = "sweeping"
  /\ threads[th].pc = "write"
  /\ threads'[th] # threads[th]

\* C25: for every segment and every group g, what scalarFluxTally adds to
\* the scalar flux of the FSR of the segment is the polar-weighted loss of
\* angular flux along the segment, the sum over p of
\* w_p * (psi_before[p, g] - psi_after[p, g]), where
\* psi_after = psi_before - (psi_before - ratio[fsr, g]) * E[p, g]; the
\* scalar flux of every other FSR and the ratios are left as they were.
C25_TallyAddsWeightedLoss ==
  [][\A th \in Team :
       LET T == threads[th]
           r == CurrentRegion(T)
           d == CurrentSlot(T)
           ex == SegmentExp(T.track, CurrentSegment(T))
           before == boundary_flux[T.track][d]
           after == boundary_flux'[T.track][d]
       IN  /\ Tallies(th) =>
                /\ \A p \in Polars, g \in Groups :
                     after[p][g] =
                       RSub(before[p][g],
                            RMul(RSub(before[p][g], ratios[r][g]), ex))
                /\ \A g \in Groups :
                     threads'[th].fsr_flux[g] =
                       SumOver(Polars, [p \in Polars |->
                         RMul(PolarWeight(p),
                              RSub(before[p][g], after[p][g]))])
                /\ scalar_flux' = scalar_flux
                /\ ratios' = ratios
           /\ Adds(th) =>
                /\ \A g \in Groups :
                     scalar_flux'[r][g] = RAdd(T.row[g], T.fsr_flux[g])
                /\ T.row = scalar_flux[r]
                /\ \A r2 \in FSRs \ {r} : scalar_flux'[r2] = scalar_flux[r2]
                /\ ratios' = ratios]_vars

\* The elements of fsr_flux a call of scalarFluxTally clears, accumulates
\* into and adds to the scalar flux: 0 .. _num_groups - 1
BufferElements == Groups

\* C26: for every number of FSRs and every padded number of groups, every
\* read and write of the per-track buffer fsr_flux by scalarFluxTally (the
\* memset, the accumulation for each group, the vdAdd into the FSR flux)
\* stays within the elements transportSweep allocated for the buffer.
C26_TallyBufferInBounds ==
  \A th \in Team :
    (stage = "sweeping" /\ threads[th].pc \in {"lock", "read", "write", "unlock"})
      => \A e \in BufferElements : e < BufferSize

----------------------------------------------------------------------------
(* Claims about the source residual *)

\* The step is a call of computeFSRSources.
SourcesComputed == stage = "sources" /\ stage' = "sweep"

\* ((Q - Q_old) / Q)^2 of an entry, Q being the new source and Q_old the
\* source the call before stored; 0 for an entry with |Q| <= 1e-10.
RelativeChangeSquared(r, G) ==
  IF source'[r][G] = I(0) THEN I(0)
  ELSE RMul(RDiv(RSub(source'[r][G], old_source[r][G]), source'[r][G]),
            RDiv(RSub(source'[r][G], old_source[r][G]), source'[r][G]))

\* The sources before and after the call are within the magnitudes the exact
\* arithmetic can square and add.
SmallSources ==
  \A r \in FSRs : \A G \in Groups :
    Small(source'[r][G]) /\ Small(old_source[r][G])

\* C24: computeFSRSources returns sqrt((1 / N_FSR) * sum of
\* ((Q - Q_old) / Q)^2) over the entries (FSR, group) with |Q| > 1e-10, Q_old
\* being the source stored by the call before; an entry with |Q| <= 1e-10
\* contributes exactly 0; and after the call Q_old equals Q in every entry.
\* (The formula compares the squares, whatever the allocated array held.)
C24_ResidualOverNonzeroSources ==
  [][SourcesComputed /\ SmallSources =>
       /\ \A g \in Garbage :
            SourceResidualSquared(g) =
              RDiv(SumOver(FSRs, [r \in FSRs |->
                     SumOver(Groups, [G \in Groups |->
                       RelativeChangeSquared(r, G)])]),
                   I(num_FSRs))
       /\ old_source' = source']_vars

====
